---- MODULE Spec2Model ----
(***************************************************************************)
(* A model of the statement pipeline of the SQLite -> PostgreSQL shim:     *)
(* prepare / bind / step / reset / finalize (db_interpose_pg_linux.c),     *)
(* metadata-on-demand and the column / value accessors                     *)
(* (db_interpose_column.c), exec (db_interpose_exec.c) and the error       *)
(* surface (db_interpose_metadata.c).                                      *)
(*                                                                         *)
(* C strings are sequences of one-character strings; a NULL pointer is the *)
(* record NULL.  Variables whose name starts with h_ are observations of   *)
(* the host (what it was returned, what Engine-R was sent); the code does  *)
(* not read them.                                                          *)
(***************************************************************************)
EXTENDS Integers, Sequences, FiniteSets, TLC

\* ------------------------------------------------------------------------
\* Bounds of the exploration
\* ------------------------------------------------------------------------
MaxBindIdx == 1
MaxRows == 2
ValueRows == 1
ValueCols == 1
MaxValueLen == 4
MaxChanges == 2
MaxSqlLen == 3
MaxHandles == 2
NThreads == 2
MaxGeneration == 2
MaxPieces == 3
MaxCols == 2
MaxPasses == 2
MaxCacheRows == 2
MaxRuns == 2
\* Statements the host prepares on the registries.
MaxStmts == 2
\* Redirected handles the host opens on the registries.
MaxRegHandles == 1
\* Parameters of a cached request, references to a cached result, and
\* the clock of the cache: ticks, and the ms in one tick.
MaxKeyParams == 2
MaxRefs == 2
MaxTicks == 3
TickMs == 500
\* Statements of the prepared-statement cache, its capacity, and sessions
\* of a slot.
MaxHashes == 3
STMT_CACHE_SIZE == 2
MaxSessions == 3
\* Value handles handed out.
MaxAllocs == 700

\* ------------------------------------------------------------------------
\* Program constants
\* ------------------------------------------------------------------------
MAX_PARAMS == 64
\* Slots of the pool (4 in test_crash_scenarios.c).
POOL_SIZE == 2
\* Turns of the trylock loop of test_trylock_with_retry.
TRYLOCK_ATTEMPTS == 10
\* Entries of stmt_map[] (1024 in db_interpose_pg_linux.c).
MAX_STATEMENTS == 1
\* Entries of connections[].
MAX_CONNECTIONS == 64
\* test_query_cache.c: the TTL of a cached result; the low bits of the
\* 64-bit hash that the model keeps; the FNV offset basis
\* 0xcbf29ce484222325 and the FNV prime 0x100000001b3 in these bits.
QUERY_CACHE_TTL_MS == 1000
KEY_BITS == 16
FNV_OFFSET == 8997
FNV_PRIME == 435
\* The ring of value handles: its size, the mask of line 767 of
\* db_interpose_column.c (0xFF), and the width of the allocation counter
\* (32 bits in the source).
MAX_FAKE_VALUES == 256
FAKE_MASK == 255
COUNTER_BITS == 9

NULL == [isnull |-> TRUE]
CStr(s) == [isnull |-> FALSE, bytes |-> s]

\* ExecStatusType values the code distinguishes
PGRES_COMMAND_OK == "PGRES_COMMAND_OK"
PGRES_TUPLES_OK == "PGRES_TUPLES_OK"
PGRES_FATAL_ERROR == "PGRES_FATAL_ERROR"

NoResult == [present |-> FALSE]
PGresult(resp) == [present |-> TRUE, status |-> resp.status,
                   ntuples |-> resp.ntuples, nfields |-> resp.nfields]

\* What Engine-R may answer to a command of the given kind.  Inside an
\* aborted transaction every command fails.
Responses(kind, aborted) ==
    LET fail == {[status |-> PGRES_FATAL_ERROR, ntuples |-> 0, nfields |-> 0]}
        rows == {[status |-> PGRES_TUPLES_OK, ntuples |-> n, nfields |-> 1] :
                    n \in 0..MaxRows}
        cmd  == {[status |-> PGRES_COMMAND_OK, ntuples |-> 0, nfields |-> 0]}
    IN  IF aborted THEN fail
        ELSE IF kind = "select" THEN rows \cup fail
        ELSE cmd \cup fail

Failed(resp) == resp.status \notin {PGRES_COMMAND_OK, PGRES_TUPLES_OK}

\* ------------------------------------------------------------------------
\* State
\* ------------------------------------------------------------------------
VARIABLES
    pg_only,        \* pg_connection_t.shadow_db == NULL
    txn_aborted,    \* the Engine-R session is inside a failed transaction
    pg_stmt,        \* the pg_stmt_t the registry maps the host's statement to
    h_rc,           \* what the last call returned to the host
    h_op,           \* the last call
    h_steps,        \* step calls since prepare or the last reset
    h_step_failed,  \* Engine-R reported a failure to a step since then
    h_execs,        \* commands sent for the statement since then
    h_sent,         \* the parameters of the command the last call sent, if any
    h_had_reset,    \* the statement was reset and not stepped since
    h_snapshot,     \* the parameter vector when that reset was called
    h_touched,      \* positions bound or cleared since that reset
    h_stmt,         \* the sqlite3_stmt* the host holds, and the SQL it prepared
    h_last          \* the bind call the host made last, if no other call followed

stmtVars == <<pg_only, txn_aborted, pg_stmt, h_rc, h_op, h_steps, h_step_failed,
              h_execs, h_sent, h_had_reset, h_snapshot, h_touched, h_stmt,
              h_last>>

\* The accessor layer (db_interpose_column.c): one statement holding a result
\* of one row and one column, and the synthetic value handle of that column.
VARIABLES
    v_cell,         \* the result's cell: PQgetisnull, PQftype, PQgetvalue
    v_row,          \* pg_stmt->current_row
    v_fake,         \* the pg_fake_value_t my_sqlite3_column_value handed out
    v_fn,           \* the getter pair the host called last
    v_col,          \* what the column getter returned
    v_val,          \* what the value getter returned on the handle
    v_probe         \* the positions at which the last call asked libpq for a cell

valueVars == <<v_cell, v_row, v_fake, v_fn, v_col, v_val, v_probe>>

\* The ring of text buffers my_sqlite3_column_text copies into, and a host
\* thread that keeps the pointer one call on statement A returned.
VARIABLES
    column_text_idx,    \* the atomic counter, as the slot it selects next
    t_ptr,              \* the pointer the host keeps: its slot, the bytes it saw
    t_watch             \* column_text_buffers[t_ptr.slot] now

textVars == <<column_text_idx, t_ptr, t_watch>>

\* The connection record of a redirected handle and its error surface
\* (db_interpose_exec.c, db_interpose_metadata.c, db_interpose_pg.c).
VARIABLES
    e_variant,      \* which build: "modular" or "macos" (db_interpose_pg.c)
    pg_conn,        \* pg_connection_t
    e_op,           \* the last call on the handle
    e_rc,           \* what it returned
    e_remote,       \* how Engine-R answered it: "none", "ok", "failed"
    e_history,      \* "clean", "failed", or "failed_then_ok"
    e_sql,          \* the SQL text the host passed to the last call
    e_fwd           \* the call Engine-L received from it, if any

execVars == <<e_variant, pg_conn, e_op, e_rc, e_remote, e_history, e_sql, e_fwd>>

\* The logical handles the host opens and closes (db_interpose_open.c,
\* db_interpose_pg_linux.c).
VARIABLES
    o_variant,      \* which build: "modular" or "linux" (db_interpose_pg_linux.c)
    o_db,           \* per handle: Engine-L's handle is open, and on which path
    o_conn,         \* per handle: its pg_connection_t is registered
    o_session,      \* per handle: the Engine-R session made for it
    o_lease,        \* per handle: the state of the pool slot bound to it
    o_last          \* the last call: its name, its handle, what it returned

openVars == <<o_variant, o_db, o_conn, o_session, o_lease, o_last>>

\* The connection pool and the threads that take and return its slots
\* (tests/src/test_crash_scenarios.c).
VARIABLES
    test_pool,      \* per slot: state and generation
    p_pc,           \* per thread: where it is in acquire or release
    p_i,            \* per thread: the slot its call is working on; outside a
                    \* call 0, or -1 when its acquire found no slot
    p_gen,          \* per thread: *out_generation of its acquire (0 outside it)
    p_held,         \* per thread: the leases it holds
    p_old,          \* per thread: the lease it gave back last
    p_claims,       \* per slot: how often its state left FREE
    p_issued        \* the leases handed out so far

poolVars == <<test_pool, p_pc, p_i, p_gen, p_held, p_old, p_claims, p_issued>>

\* The threads of the host inside calls on one Engine-R session, and the
\* session's mutex (pg_connection_t.mutex).
VARIABLES
    k_variant,      \* which build: "modular" or "linux"
    k_mutex,        \* the thread that holds pg_conn->mutex, or 0
    k_pc,           \* per thread: where it is in its call
    k_call,         \* per thread: the call it is in
    k_failed        \* per thread: the call of its whose command Engine-R
                    \* failed, with no ROLLBACK sent since ("none" if none)

lockVars == <<k_variant, k_mutex, k_pc, k_call, k_failed>>

\* Threads that take a mutex by trylock and retry
\* (tests/src/test_crash_scenarios.c, test_trylock_with_retry).
VARIABLES
    r_mtx,          \* the mutex: 0 free, a thread, or Holder
    r_pc,           \* per thread: where it is in the loop
    r_i,            \* per thread: the loop counter i
    r_acquired,     \* per thread: acquired
    r_tries         \* per thread: the trylock calls it has made

retryVars == <<r_mtx, r_pc, r_i, r_acquired, r_tries>>

\* The SQL text on its way through the passes of the translator
\* (sql_tr_keywords.c, sql_tr_quotes.c, sql_tr_upsert.c).
VARIABLES
    tr_src,         \* the text the last pass was handed
    tr_sql,         \* the text it returned
    tr_pass,        \* the last pass
    tr_n            \* the passes run so far

trVars == <<tr_src, tr_sql, tr_pass, tr_n>>

\* A statement with its result set and its accessor caches for column 0
\* (db_interpose_column.c).
VARIABLES
    c_result,           \* pg_stmt->result: the cells of column 0, row by row
    c_row,              \* pg_stmt->current_row
    c_runs,             \* the executions of the statement so far
    decoded_blob_row,   \* pg_stmt->decoded_blob_row
    decoded_blobs,      \* pg_stmt->decoded_blobs[0]
    cached_row,         \* pg_stmt->cached_row
    cached_blob,        \* pg_stmt->cached_blob[0]
    c_fn,               \* the last call on the statement
    c_ret               \* what the blob getter returned

cacheVars == <<c_result, c_row, c_runs, decoded_blob_row, decoded_blobs,
               cached_row, cached_blob, c_fn, c_ret>>

\* The handle registry and the statement registry of db_interpose_pg_linux.c,
\* with the host threads inside the calls that use them.
VARIABLES
    g_conns,        \* per handle: its pg_connection_t ("none", "live", "freed")
    g_session,      \* per handle: pg_conn->conn ("none", "open", "finished")
    connections,    \* the handles whose record is in connections[]
    g_stmts,        \* per statement: its pg_stmt_t
    stmt_map,       \* the statements whose record is in stmt_map[]
    conn_mutex,     \* the thread holding conn_mutex, 0 when free
    stmt_mutex,     \* the thread holding stmt_mutex, 0 when free
    g_pc,           \* per thread: where it stands inside its call
    g_op,           \* per thread: the call it is in
    g_arg,          \* per thread: the statement or handle of the call
    g_ptr,          \* per thread: the pg_stmt_t* find_pg_stmt gave it
    g_uaf,          \* per thread: the freed records its call has read
    g_rc,           \* the last call that returned, and the freed records it read
    g_state         \* the library: "up", "unloaded" or "crashed"

regVars == <<g_conns, g_session, connections, g_stmts, stmt_map, conn_mutex,
             stmt_mutex, g_pc, g_op, g_arg, g_ptr, g_uaf, g_rc, g_state>>

\* One redirected SELECT statement and the accessors of
\* db_interpose_column.c called on it by the host threads.
VARIABLES
    a_mutex,        \* the thread holding pg_stmt->mutex, 0 when free
    a_conn_mutex,   \* the thread holding exec_conn->mutex, 0 when free
    a_result,       \* pg_stmt->result is set
    a_pc,           \* per thread: where it stands inside its accessor
    a_fn,           \* per thread: the accessor it is in
    a_trips,        \* per thread: requests sent to Engine-R under pg_stmt->mutex
    a_last          \* the last accessor that returned, and its requests

accVars == <<a_mutex, a_conn_mutex, a_result, a_pc, a_fn, a_trips, a_last>>

\* The result cache as tests/src/test_query_cache.c replicates it: one
\* entry with its reference count, the clock, and two lookups with their
\* keys.
VARIABLES
    q_entry,        \* the cached result: state, ref_count, created_ms
    q_now,          \* the clock, in ms
    q_a,            \* the request of the first lookup: sql and params
    q_b,            \* the request of the second lookup
    q_key_a,        \* compute_cache_key of the first request
    q_key_b         \* compute_cache_key of the second request

qcVars == <<q_entry, q_now, q_a, q_b, q_key_a, q_key_b>>

\* One pool lease with its session and its prepared-statement cache
\* (db_interpose_exec.c).
VARIABLES
    s_slot,         \* the state of the pool slot of the lease
    s_session,      \* the number of the session the slot holds
    s_prepared,     \* the statement names the current session knows
    s_cache,        \* the cache: for each hash, the session its name was
                    \* prepared on, 0 when the hash is not cached
    s_lru,          \* the cached hashes, least recently used first
    s_last          \* the last exec: how it ran, and on which sessions

scVars == <<s_slot, s_session, s_prepared, s_cache, s_lru, s_last>>

\* The ring of value handles of my_sqlite3_column_value
\* (db_interpose_column.c).
VARIABLES
    fake_value_next,    \* the allocation counter, an unsigned int
    fake_value_pool,    \* per slot: the number of the allocation that wrote
                        \* it last, -1 when none did
    f_allocs,           \* the allocations made so far
    f_slot              \* the slot of the last allocation

fakeVars == <<fake_value_next, fake_value_pool, f_allocs, f_slot>>

\* The registries and what follows them.
lateVars == <<regVars, accVars, qcVars, scVars, fakeVars>>

\* The parts above, and the parts below them.
coreVars == <<stmtVars, valueVars, textVars, execVars, openVars, poolVars>>
moreVars == <<lockVars, retryVars, trVars, cacheVars, lateVars>>

\* What the operations of each part leave alone.
nonStmtVars == <<valueVars, textVars, execVars, openVars, poolVars, moreVars>>
nonValueVars == <<stmtVars, textVars, execVars, openVars, poolVars, moreVars>>
nonTextVars == <<stmtVars, valueVars, execVars, openVars, poolVars, moreVars>>
nonExecVars == <<stmtVars, valueVars, textVars, openVars, poolVars, moreVars>>
nonOpenVars == <<stmtVars, valueVars, textVars, execVars, poolVars, moreVars>>
nonPoolVars == <<stmtVars, valueVars, textVars, execVars, openVars, moreVars>>
nonLockVars == <<coreVars, retryVars, trVars, cacheVars, lateVars>>
nonRetryVars == <<coreVars, lockVars, trVars, cacheVars, lateVars>>
nonTrVars == <<coreVars, lockVars, retryVars, cacheVars, lateVars>>
nonCacheVars == <<coreVars, lockVars, retryVars, trVars, lateVars>>
earlyVars == <<coreVars, lockVars, retryVars, trVars, cacheVars>>
nonRegVars == <<earlyVars, accVars, qcVars, scVars, fakeVars>>
nonAccVars == <<earlyVars, regVars, qcVars, scVars, fakeVars>>
nonQcVars == <<earlyVars, regVars, accVars, scVars, fakeVars>>
nonScVars == <<earlyVars, regVars, accVars, qcVars, fakeVars>>
nonFakeVars == <<earlyVars, regVars, accVars, qcVars, scVars>>

vars == <<coreVars, moreVars>>

NoParams == [j \in 1..MAX_PARAMS |-> NULL]
Zeros == [j \in 1..MAX_PARAMS |-> 0]
NoSend == [sent |-> FALSE]

\* calloc(1, sizeof(pg_stmt_t))
BlankStmt ==
    [registered |-> FALSE, is_pg |-> 0, sql |-> "none", pg_sql |-> FALSE,
     result |-> NoResult, current_row |-> 0, num_rows |-> 0, num_cols |-> 0,
     param_values |-> NoParams, param_lengths |-> Zeros,
     param_formats |-> Zeros, param_count |-> 0]

\* The host holds no statement.
NoHandle == [handle |-> "none", sql |-> "none"]

\* The last call was not a bind.
NoBind == [set |-> FALSE]

NoFake == [magic |-> FALSE]

\* The accessor layer at rest, for the specifications that do not exercise it.
ValueIdle ==
    /\ v_cell = [isnull |-> TRUE, ftype |-> 25, raw |-> <<>>]
    /\ v_row = 0
    /\ v_fake = NoFake
    /\ v_fn = "none"
    /\ v_col = "none"
    /\ v_val = "none"
    /\ v_probe = {}

NoPtr == [held |-> FALSE]

\* The text ring before any call.
TextIdle ==
    /\ column_text_idx = 0
    /\ t_ptr = NoPtr
    /\ t_watch = <<>>

\* calloc'd pg_connection_t of a redirected handle.
BlankConn ==
    [is_pg_active |-> TRUE, last_error |-> "", last_error_code |-> "SQLITE_OK",
     last_changes |-> 0, healthy |-> TRUE]

\* Engine-L was not called; Engine-L was called with the SQL text sql (empty
\* for the calls that carry none).
NoCall == [called |-> FALSE]
Forwarded(sql) == [called |-> TRUE, sql |-> sql]

Handles == 1..MaxHandles
ClosedDb == [open |-> FALSE]
OpenDb(path) == [open |-> TRUE, path |-> path]
NoCallYet == [op |-> "none"]

OpenIdle ==
    /\ o_variant = "modular"
    /\ o_db = [h \in Handles |-> ClosedDb]
    /\ o_conn = [h \in Handles |-> FALSE]
    /\ o_session = [h \in Handles |-> "none"]
    /\ o_lease = [h \in Handles |-> "none"]
    /\ o_last = NoCallYet

Slots == 0..(POOL_SIZE - 1)
Threads == 1..NThreads
NoLease == [slot |-> 0 - 1, generation |-> 0]
Lease(slot, generation) == [slot |-> slot, generation |-> generation]

\* init_test_pool, and no thread inside a call.
PoolIdle ==
    /\ test_pool = [s \in Slots |-> [state |-> "SLOT_FREE", generation |-> 0]]
    /\ p_pc = [th \in Threads |-> "idle"]
    /\ p_i = [th \in Threads |-> 0]
    /\ p_gen = [th \in Threads |-> 0]
    /\ p_held = [th \in Threads |-> {}]
    /\ p_old = [th \in Threads |-> NoLease]
    /\ p_claims = [s \in Slots |-> 0]
    /\ p_issued = {}

LockIdle ==
    /\ k_variant = "modular"
    /\ k_mutex = 0
    /\ k_pc = [th \in Threads |-> "idle"]
    /\ k_call = [th \in Threads |-> "none"]
    /\ k_failed = [th \in Threads |-> "none"]

\* The thread that holds the mutex while the others try.
Holder == NThreads + 1

RetryIdle ==
    /\ r_mtx = Holder
    /\ r_pc = [th \in Threads |-> "trylock"]
    /\ r_i = [th \in Threads |-> 0]
    /\ r_acquired = [th \in Threads |-> FALSE]
    /\ r_tries = [th \in Threads |-> 0]

TrIdle ==
    /\ tr_src = <<>>
    /\ tr_sql = <<>>
    /\ tr_pass = "none"
    /\ tr_n = 0

CacheIdle ==
    /\ c_result = <<>> /\ c_row = 0 /\ c_runs = 0
    /\ decoded_blob_row = 0 /\ decoded_blobs = NULL
    /\ cached_row = 0 /\ cached_blob = NULL
    /\ c_fn = "none" /\ c_ret = NULL

RegStmts == 1..MaxStmts
NoStmt == [state |-> "none", conn |-> 0, result |-> FALSE]
NoReturn == [op |-> "none", s |-> 0, rc |-> "none", uaf |-> {}]
RegHandles == 1..MaxRegHandles

\* Nothing opened, nothing prepared, no thread inside a call.
RegIdle ==
    /\ g_conns = [h \in RegHandles |-> "none"]
    /\ g_session = [h \in RegHandles |-> "none"]
    /\ connections = {}
    /\ g_stmts = [s \in RegStmts |-> NoStmt]
    /\ stmt_map = {}
    /\ conn_mutex = 0 /\ stmt_mutex = 0
    /\ g_pc = [th \in Threads |-> "idle"]
    /\ g_op = [th \in Threads |-> "none"]
    /\ g_arg = [th \in Threads |-> 0]
    /\ g_ptr = [th \in Threads |-> 0]
    /\ g_uaf = [th \in Threads |-> {}]
    /\ g_rc = NoReturn
    /\ g_state = "up"

\* A prepared statement that was not executed, no thread inside an accessor.
AccIdle ==
    /\ a_mutex = 0 /\ a_conn_mutex = 0
    /\ a_result = FALSE
    /\ a_pc = [th \in Threads |-> "idle"]
    /\ a_fn = [th \in Threads |-> "none"]
    /\ a_trips = [th \in Threads |-> 0]
    /\ a_last = [fn |-> "none", trips |-> 0]

NoEntry == [state |-> "none", ref_count |-> 0, created_ms |-> 0]
NoRequest == [sql |-> <<>>, params |-> <<>>]

\* Nothing cached, nothing looked up.
QcIdle ==
    /\ q_entry = NoEntry /\ q_now = 0
    /\ q_a = NoRequest /\ q_b = NoRequest
    /\ q_key_a = FNV_OFFSET /\ q_key_b = FNV_OFFSET

SqlHashes == 1..MaxHashes
NoExec == [how |-> "none", hash |-> 0, made_on |-> 0, on |-> 0]

\* A lease on a READY slot with its first session and an empty cache.
ScIdle ==
    /\ s_slot = "READY" /\ s_session = 1
    /\ s_prepared = {}
    /\ s_cache = [h \in SqlHashes |-> 0]
    /\ s_lru = <<>>
    /\ s_last = NoExec

FakeSlots == 0..(MAX_FAKE_VALUES - 1)

\* No value handle was handed out.
FakeIdle ==
    /\ fake_value_next = 0
    /\ fake_value_pool = [slot \in FakeSlots |-> 0 - 1]
    /\ f_allocs = 0
    /\ f_slot = 0

LateIdle == RegIdle /\ AccIdle /\ QcIdle /\ ScIdle /\ FakeIdle

MoreIdle == LockIdle /\ RetryIdle /\ TrIdle /\ CacheIdle /\ LateIdle

ExecIdle ==
    /\ e_variant = "modular"
    /\ pg_conn = BlankConn
    /\ e_op = "none" /\ e_rc = "none" /\ e_remote = "none"
    /\ e_history = "clean"
    /\ e_sql = <<>> /\ e_fwd = NoCall

StmtInit ==
    /\ pg_only \in BOOLEAN
    /\ txn_aborted = FALSE
    /\ pg_stmt = BlankStmt
    /\ h_rc = "none"
    /\ h_op = "none"
    /\ h_steps = 0
    /\ h_step_failed = FALSE
    /\ h_execs = 0
    /\ h_sent = NoSend
    /\ h_had_reset = FALSE
    /\ h_snapshot = NoParams
    /\ h_touched = {}
    /\ h_stmt = NoHandle
    /\ h_last = NoBind

Init ==
    /\ StmtInit /\ ValueIdle /\ TextIdle /\ ExecIdle /\ OpenIdle /\ PoolIdle
    /\ MoreIdle

\* ------------------------------------------------------------------------
\* Helpers of the statement engine
\* ------------------------------------------------------------------------
is_write_operation(kind) == kind \in {"insert", "create"}
is_read_operation(kind) == kind = "select"
is_sqlite_only(kind) == kind = "pragma"

\* is_pg_only_stmt: the statement is registered, has a connection, and that
\* connection has no shadow database.
is_pg_only_stmt(s) == s.registered /\ s.is_pg # 3 /\ pg_only

\* What Engine-L's own step may return for the handle it is given.  The
\* placeholder prepare hands out for SQLite-only SQL in PostgreSQL-only mode
\* is not a statement of Engine-L: any answer is possible.
EngineLStep(h) ==
    IF h.handle = "dummy" THEN {"SQLITE_MISUSE", "SQLITE_ROW", "SQLITE_DONE"}
    ELSE {"SQLITE_ROW", "SQLITE_DONE", "SQLITE_CONSTRAINT"}

EngineLFinalize(h) ==
    IF h.handle = "dummy" THEN {"SQLITE_MISUSE", "orig"} ELSE {"orig"}

\* The paramValues[] array step and metadata-on-demand hand to PQexecParams:
\* the first param_count entries of the parameter vector.
ParamsSent(s) ==
    [sent |-> TRUE, n |-> s.param_count,
     values |-> [j \in 1..MAX_PARAMS |->
                    IF j <= s.param_count THEN s.param_values[j] ELSE NULL]]

\* strdup(val) for nBytes < 0, else the first nBytes bytes and a terminator.
CopyText(val, nBytes) ==
    IF nBytes < 0 THEN CStr(val) ELSE CStr(SubSeq(val, 1, nBytes))

StoreParam(s, idx, v, len, fmt) ==
    [s EXCEPT !.param_values[idx] = v,
              !.param_lengths[idx] = len,
              !.param_formats[idx] = fmt,
              !.param_count = IF idx > @ THEN idx ELSE @]

\* snprintf(buf, sizeof(buf), "%d", val): the decimal digits of val, with a
\* minus sign for a negative number.
DecimalDigits == <<"0", "1", "2", "3", "4", "5", "6", "7", "8", "9">>
RECURSIVE DigitsOf(_)
DigitsOf(n) ==
    IF n < 10 THEN <<DecimalDigits[n + 1]>>
    ELSE DigitsOf(n \div 10) \o <<DecimalDigits[(n % 10) + 1]>>

snprintf_d(val) == IF val < 0 THEN <<"-">> \o DigitsOf(0 - val) ELSE DigitsOf(val)

\* The bind call as the host made it: the position and the value the call
\* binds there (NULL for a NULL pointer and for SQL NULL).
BindCall(idx, want) == [set |-> TRUE, idx |-> idx, want |-> want]

\* The loop of sqlite3_reset and sqlite3_clear_bindings over the parameters.
FreeParams(s) ==
    [s EXCEPT !.param_values = NoParams,
              !.param_lengths = Zeros,
              !.param_formats = Zeros]

\* sqlite3_step, read statement without a result: the effect of the answer.
StepExecRead(s, resp) ==
    IF resp.status = PGRES_TUPLES_OK
    THEN [s EXCEPT !.result = PGresult(resp),
                   !.num_rows = resp.ntuples,
                   !.num_cols = resp.nfields,
                   !.current_row = 0]
    ELSE IF resp.status # PGRES_COMMAND_OK
    THEN [s EXCEPT !.result = NoResult]
    ELSE [s EXCEPT !.result = PGresult(resp)]

\* sqlite3_step, read statement with a result: advance.
StepAdvance(s) == [s EXCEPT !.current_row = @ + 1]

\* sqlite3_step, read statement: the code returned from the PostgreSQL result.
StepReadRc(s) ==
    IF s.result.present
    THEN IF s.current_row < s.num_rows THEN "SQLITE_ROW" ELSE "SQLITE_DONE"
    ELSE "SQLITE_DONE"

\* The tail of sqlite3_step in shadow mode: Engine-L's own step, with a
\* UNIQUE violation of an INSERT reported as DONE.
StepOrigRc(s, orig) ==
    IF orig = "SQLITE_CONSTRAINT" /\ s.sql = "insert" THEN "SQLITE_DONE" ELSE orig

MetadataRow == 0 - 1

\* A variant of EnsureResult that leaves the cursor on row 0.
EnsureResult_AtRowZero(s, resp) ==
    IF resp.status = PGRES_TUPLES_OK
    THEN [s EXCEPT !.result = PGresult(resp),
                   !.num_rows = resp.ntuples,
                   !.num_cols = resp.nfields,
                   !.current_row = 0]
    ELSE [s EXCEPT !.result = NoResult]

\* ensure_pg_result_for_metadata after PQexecParams answered resp.
EnsureResult(s, resp) ==
    IF resp.status = PGRES_TUPLES_OK
    THEN [s EXCEPT !.result = PGresult(resp),
                   !.num_rows = resp.ntuples,
                   !.num_cols = resp.nfields,
                   !.current_row = MetadataRow]
    ELSE [s EXCEPT !.result = NoResult]

\* Calls explored per statement run: enough to pass the end of the largest
\* result and step once more.
StepLimit == MaxRows + 2

\* ------------------------------------------------------------------------
\* Operations of the statement engine (db_interpose_pg_linux.c)
\* ------------------------------------------------------------------------
\* Outside PostgreSQL-only mode bind, clear_bindings, reset and finalize
\* return what Engine-L's own function returned.
OrigOr(rc) == IF pg_only THEN rc ELSE "orig"

sqlite3_prepare_v2(kind, nparams, translated, orig) ==
    /\ h_stmt = NoHandle /\ ~pg_stmt.registered
    /\ UNCHANGED nonStmtVars
    /\ LET fresh == [BlankStmt EXCEPT !.registered = TRUE,
                        !.is_pg = IF is_write_operation(kind) THEN 1 ELSE 2,
                        !.sql = kind, !.pg_sql = translated,
                        !.param_count = nparams]
           dummy == [BlankStmt EXCEPT !.registered = TRUE, !.is_pg = 3,
                        !.sql = kind]
           holds(h) == h_stmt' = [handle |-> h, sql |-> kind]
       IN  IF pg_only
           THEN IF is_sqlite_only(kind)
                \* calloc(1, sizeof(void*)), not registered
                THEN pg_stmt' = pg_stmt /\ h_rc' = "SQLITE_OK" /\ holds("dummy")
                ELSE pg_stmt' = fresh /\ h_rc' = "SQLITE_OK" /\ holds("pg_stmt")
           ELSE IF orig = "exists"
           THEN IF kind = "create"
                THEN pg_stmt' = dummy /\ h_rc' = "SQLITE_OK" /\ holds("pg_stmt")
                ELSE pg_stmt' = pg_stmt /\ h_rc' = "SQLITE_ERROR"
                        /\ h_stmt' = NoHandle
           ELSE IF orig # "SQLITE_OK"
           THEN pg_stmt' = pg_stmt /\ h_rc' = orig /\ h_stmt' = NoHandle
           ELSE IF (is_write_operation(kind) \/ is_read_operation(kind))
                    /\ ~is_sqlite_only(kind)
           THEN pg_stmt' = fresh /\ h_rc' = "SQLITE_OK" /\ holds("engine_l")
           ELSE pg_stmt' = pg_stmt /\ h_rc' = "SQLITE_OK" /\ holds("engine_l")
    /\ h_op' = "prepare"
    /\ h_steps' = 0 /\ h_step_failed' = FALSE /\ h_execs' = 0
    /\ h_sent' = NoSend /\ h_had_reset' = FALSE
    /\ h_snapshot' = NoParams /\ h_touched' = {}
    /\ h_last' = NoBind
    /\ UNCHANGED <<pg_only, txn_aborted>>

\* sqlite3_bind_int / sqlite3_bind_int64
sqlite3_bind_int(idx, val) ==
    /\ pg_stmt.registered
    /\ UNCHANGED nonStmtVars
    /\ pg_stmt' = IF idx > 0 /\ idx <= MAX_PARAMS
                  THEN StoreParam(pg_stmt, idx, CStr(snprintf_d(val)), 0, 0)
                  ELSE pg_stmt
    /\ h_rc' = OrigOr("SQLITE_OK")
    /\ h_op' = "bind_int"
    /\ h_touched' = IF h_had_reset THEN h_touched \cup {idx} ELSE {}
    /\ h_sent' = NoSend
    /\ h_last' = BindCall(idx, CStr(snprintf_d(val)))
    /\ UNCHANGED <<pg_only, txn_aborted, h_steps, h_step_failed, h_execs,
                   h_had_reset, h_snapshot, h_stmt>>

\* sqlite3_bind_blob: nBytes bytes of val, binary format.
sqlite3_bind_blob(idx, val, nBytes) ==
    /\ pg_stmt.registered
    /\ UNCHANGED nonStmtVars
    /\ val # NULL => nBytes <= Len(val.bytes)
    /\ pg_stmt' = IF idx > 0 /\ idx <= MAX_PARAMS /\ val # NULL /\ nBytes > 0
                  THEN StoreParam(pg_stmt, idx, CStr(SubSeq(val.bytes, 1, nBytes)),
                                  nBytes, 1)
                  ELSE pg_stmt
    /\ h_rc' = OrigOr("SQLITE_OK")
    /\ h_op' = "bind_blob"
    /\ h_touched' = IF h_had_reset THEN h_touched \cup {idx} ELSE {}
    /\ h_sent' = NoSend
    /\ h_last' = BindCall(idx,
                          IF val = NULL THEN NULL
                          ELSE CStr(SubSeq(val.bytes, 1, nBytes)))
    /\ UNCHANGED <<pg_only, txn_aborted, h_steps, h_step_failed, h_execs,
                   h_had_reset, h_snapshot, h_stmt>>

sqlite3_bind_text(idx, val, nBytes) ==
    /\ pg_stmt.registered
    /\ UNCHANGED nonStmtVars
    /\ pg_stmt' = IF idx > 0 /\ idx <= MAX_PARAMS /\ val # NULL
                  THEN StoreParam(pg_stmt, idx, CopyText(val.bytes, nBytes), 0, 0)
                  ELSE pg_stmt
    /\ h_rc' = OrigOr("SQLITE_OK")
    /\ h_op' = "bind_text"
    /\ h_touched' = IF h_had_reset THEN h_touched \cup {idx} ELSE {}
    /\ h_sent' = NoSend
    /\ h_last' = BindCall(idx,
                          IF val = NULL THEN NULL ELSE CopyText(val.bytes, nBytes))
    /\ UNCHANGED <<pg_only, txn_aborted, h_steps, h_step_failed, h_execs,
                   h_had_reset, h_snapshot, h_stmt>>

sqlite3_bind_null(idx) ==
    /\ pg_stmt.registered
    /\ UNCHANGED nonStmtVars
    /\ pg_stmt' = IF idx > 0 /\ idx <= MAX_PARAMS
                  THEN StoreParam(pg_stmt, idx, NULL, 0, 0)
                  ELSE pg_stmt
    /\ h_rc' = OrigOr("SQLITE_OK")
    /\ h_op' = "bind_null"
    /\ h_touched' = IF h_had_reset THEN h_touched \cup {idx} ELSE {}
    /\ h_sent' = NoSend
    /\ h_last' = BindCall(idx, NULL)
    /\ UNCHANGED <<pg_only, txn_aborted, h_steps, h_step_failed, h_execs,
                   h_had_reset, h_snapshot, h_stmt>>

sqlite3_clear_bindings ==
    /\ pg_stmt.registered
    /\ UNCHANGED nonStmtVars
    /\ pg_stmt' = FreeParams(pg_stmt)
    /\ h_rc' = OrigOr("SQLITE_OK")
    /\ h_op' = "clear_bindings"
    /\ h_touched' = IF h_had_reset THEN 1..MAX_PARAMS ELSE {}
    /\ h_sent' = NoSend
    /\ h_last' = NoBind
    /\ UNCHANGED <<pg_only, txn_aborted, h_steps, h_step_failed, h_execs,
                   h_had_reset, h_snapshot, h_stmt>>

\* sqlite3_reset: frees the parameters, clears the result, rewinds.
ResetStmt(s) == [FreeParams(s) EXCEPT !.result = NoResult, !.current_row = 0]

sqlite3_reset ==
    /\ pg_stmt.registered
    /\ UNCHANGED nonStmtVars
    /\ pg_stmt' = ResetStmt(pg_stmt)
    /\ h_rc' = IF pg_stmt.is_pg = 3 THEN "SQLITE_OK" ELSE OrigOr("SQLITE_OK")
    /\ h_op' = "reset"
    /\ h_steps' = 0 /\ h_step_failed' = FALSE /\ h_execs' = 0
    /\ h_sent' = NoSend /\ h_had_reset' = TRUE
    /\ h_snapshot' = pg_stmt.param_values /\ h_touched' = {}
    /\ h_last' = NoBind
    /\ UNCHANGED <<pg_only, txn_aborted, h_stmt>>

\* sqlite3_finalize.  orig is what Engine-L's own finalize returns if the call
\* reaches it.
sqlite3_finalize(orig) ==
    /\ h_stmt # NoHandle
    /\ orig \in EngineLFinalize(h_stmt)
    /\ UNCHANGED nonStmtVars
    /\ pg_stmt' = BlankStmt
    /\ h_stmt' = NoHandle
    /\ h_rc' = IF is_pg_only_stmt(pg_stmt) \/ pg_stmt.is_pg = 3
               THEN "SQLITE_OK" ELSE orig
    /\ h_op' = "finalize"
    /\ h_steps' = 0 /\ h_step_failed' = FALSE /\ h_execs' = 0
    /\ h_sent' = NoSend /\ h_had_reset' = FALSE
    /\ h_snapshot' = NoParams /\ h_touched' = {}
    /\ h_last' = NoBind
    /\ UNCHANGED <<pg_only, txn_aborted>>

\* sqlite3_step.  resp is Engine-R's answer if a command is sent, orig is
\* Engine-L's own step result if the call reaches it.
sqlite3_step(resp, orig) ==
    /\ h_stmt # NoHandle
    /\ orig \in EngineLStep(h_stmt)
    /\ UNCHANGED nonStmtVars
    /\ h_steps < StepLimit
    /\ h_op' = "step"
    /\ h_steps' = h_steps + 1
    /\ h_had_reset' = FALSE /\ h_snapshot' = NoParams /\ h_touched' = {}
    /\ h_last' = NoBind
    /\ UNCHANGED <<pg_only, h_stmt>>
    /\ IF pg_stmt.is_pg = 3
       THEN /\ h_rc' = "SQLITE_DONE"
            /\ h_sent' = NoSend
            /\ UNCHANGED <<pg_stmt, txn_aborted, h_step_failed, h_execs>>
       ELSE IF pg_stmt.pg_sql /\ pg_stmt.is_pg = 2
       THEN /\ IF ~pg_stmt.result.present
               THEN /\ resp \in Responses(pg_stmt.sql, txn_aborted)
                    /\ pg_stmt' = StepExecRead(pg_stmt, resp)
                    /\ h_execs' = h_execs + 1
                    /\ h_sent' = ParamsSent(pg_stmt)
                    /\ h_step_failed' = (h_step_failed \/ Failed(resp))
                    \* a failure is followed by PQexec("ROLLBACK")
                    /\ txn_aborted' = IF Failed(resp) THEN FALSE ELSE txn_aborted
               ELSE /\ pg_stmt' = StepAdvance(pg_stmt)
                    /\ h_sent' = NoSend
                    /\ UNCHANGED <<txn_aborted, h_step_failed, h_execs>>
            /\ h_rc' = IF pg_only THEN StepReadRc(pg_stmt')
                                  ELSE StepOrigRc(pg_stmt, orig)
       ELSE IF pg_stmt.pg_sql /\ pg_stmt.is_pg = 1
       THEN /\ resp \in Responses(pg_stmt.sql, txn_aborted)
            /\ h_execs' = h_execs + 1
            /\ h_sent' = ParamsSent(pg_stmt)
            /\ h_step_failed' = (h_step_failed \/ Failed(resp))
            /\ txn_aborted' = IF Failed(resp) THEN FALSE ELSE txn_aborted
            /\ h_rc' = IF pg_only THEN "SQLITE_DONE" ELSE StepOrigRc(pg_stmt, orig)
            /\ UNCHANGED pg_stmt
       ELSE /\ h_rc' = IF is_pg_only_stmt(pg_stmt) THEN "SQLITE_DONE"
                       ELSE StepOrigRc(pg_stmt, orig)
            /\ h_sent' = NoSend
            /\ UNCHANGED <<pg_stmt, txn_aborted, h_step_failed, h_execs>>

\* ------------------------------------------------------------------------
\* Metadata-on-demand (db_interpose_column.c)
\* ------------------------------------------------------------------------
\* The guard under which the accessor calls ensure_pg_result_for_metadata and
\* that function sends the statement.
MetadataExecutes(s, fn) ==
    /\ s.pg_sql /\ ~s.result.present
    /\ fn = "column_count" => s.num_cols = 0

\* my_sqlite3_column_count / my_sqlite3_column_name / my_sqlite3_column_decltype
\* on a read statement (is_pg == 2).
my_sqlite3_column_meta(fn, resp, inTxn) ==
    /\ pg_stmt.registered /\ pg_stmt.is_pg = 2
    /\ UNCHANGED nonStmtVars
    /\ h_execs < StepLimit
    /\ h_op' = fn
    /\ IF MetadataExecutes(pg_stmt, fn)
       THEN /\ resp \in Responses(pg_stmt.sql, txn_aborted)
            /\ pg_stmt' = EnsureResult(pg_stmt, resp)
            /\ h_execs' = h_execs + 1
            /\ h_sent' = ParamsSent(pg_stmt)
            \* no ROLLBACK on this path
            /\ txn_aborted' = IF Failed(resp) THEN (txn_aborted \/ inTxn)
                                              ELSE txn_aborted
       ELSE h_sent' = NoSend /\ UNCHANGED <<pg_stmt, h_execs, txn_aborted>>
    /\ h_rc' = IF fn = "column_count" THEN "count" ELSE
               IF pg_stmt'.result.present THEN "pg" ELSE "orig"
    /\ UNCHANGED <<pg_only, h_steps, h_step_failed, h_had_reset, h_snapshot,
                   h_touched, h_stmt, h_last>>

\* ------------------------------------------------------------------------
\* The host
\* ------------------------------------------------------------------------
SqlKinds == {"select", "insert", "create", "other", "pragma"}
BindTexts == {NULL, CStr(<<"a">>)}
AnyResponse == Responses("select", FALSE) \cup Responses("insert", FALSE)
OrigStepRc == {"SQLITE_ROW", "SQLITE_DONE", "SQLITE_CONSTRAINT", "SQLITE_MISUSE"}

Next ==
    \/ \E kind \in SqlKinds, n \in 0..MaxBindIdx, tr \in BOOLEAN,
          orig \in {"SQLITE_OK", "SQLITE_ERROR", "exists"} :
          sqlite3_prepare_v2(kind, n, tr, orig)
    \/ \E idx \in 1..MaxBindIdx : sqlite3_bind_text(idx, CStr(<<"a">>), 0 - 1)
    \/ \E idx \in 1..MaxBindIdx : sqlite3_bind_null(idx)
    \/ sqlite3_clear_bindings
    \/ \E resp \in AnyResponse, orig \in OrigStepRc : sqlite3_step(resp, orig)
    \/ sqlite3_reset
    \/ \E orig \in {"orig", "SQLITE_MISUSE"} : sqlite3_finalize(orig)
    \/ \E fn \in {"column_count", "column_name", "column_decltype"},
          resp \in AnyResponse, inTxn \in BOOLEAN :
          my_sqlite3_column_meta(fn, resp, inTxn)

Spec == Init /\ [][Next]_vars

\* ------------------------------------------------------------------------
\* Claims about the statement engine
\* ------------------------------------------------------------------------
\* A read statement that PostgreSQL-only mode serves from Engine-R.
ServedRead == pg_only /\ pg_stmt.registered /\ pg_stmt.is_pg = 2 /\ pg_stmt.pg_sql

\* C1: reset preserves the bound parameters: the first step after a reset
\* sends, at every position the host has not rebound or cleared since, the
\* value that position held when reset was called.
C1_ResetKeepsParams ==
    [][(h_had_reset /\ h_op' = "step" /\ h_sent'.sent)
          => \A j \in 1..MAX_PARAMS :
                j \notin h_touched => h_sent'.values[j] = h_snapshot[j]]_vars

C4_RowInRange ==
    (pg_stmt.registered /\ pg_stmt.result.present /\ h_steps >= 1)
        => (0 <= pg_stmt.current_row /\ pg_stmt.current_row <= pg_stmt.num_rows)

\* C5: between prepare or reset and the next reset a read statement is sent
\* to Engine-R at most once; after metadata-on-demand the step sends nothing.
C5_ExecutedOnce ==
    (pg_stmt.registered /\ pg_stmt.is_pg = 2) => h_execs <= 1

\* C29: a redirected write statement is sent to Engine-R exactly once between
\* prepare (or reset) and the next reset, on the first step; further steps
\* before a reset return DONE and send nothing.
C29_WriteSentOnce ==
    (pg_stmt.registered /\ pg_stmt.is_pg = 1 /\ pg_stmt.pg_sql)
        => /\ h_execs <= 1
           /\ h_steps >= 1 => h_execs = 1
           /\ (h_op = "step" /\ h_steps >= 2)
                => (h_rc = "SQLITE_DONE" /\ h_sent = NoSend)

\* ------------------------------------------------------------------------
\* The bind calls, at every position and with every kind of value
\* ------------------------------------------------------------------------
BindPositions == 0..(MaxBindIdx + 1)
BindInts == {0 - 1, 10}
BindBlobs == {NULL, CStr(<<"b">>)}

BindNext ==
    \/ \E kind \in {"select", "insert"}, n \in 0..MaxBindIdx :
          sqlite3_prepare_v2(kind, n, TRUE, "SQLITE_OK")
    \/ \E idx \in BindPositions, val \in BindInts : sqlite3_bind_int(idx, val)
    \/ \E idx \in BindPositions, val \in BindTexts, nBytes \in {0 - 1, 0} :
          sqlite3_bind_text(idx, val, nBytes)
    \/ \E idx \in BindPositions, val \in BindBlobs, nBytes \in 0..1 :
          sqlite3_bind_blob(idx, val, nBytes)
    \/ \E idx \in BindPositions : sqlite3_bind_null(idx)
    \/ \E resp \in AnyResponse, orig \in OrigStepRc : sqlite3_step(resp, orig)
    \/ sqlite3_finalize("orig")

SpecBind == Init /\ [][BindNext]_vars

\* C13: a bind call at a valid position replaces what is stored there: when
\* position i holds a value after bind(i, w), the step that follows sends w
\* at position i and not an earlier value, for every bind kind and every w,
\* a NULL text pointer, an empty blob and SQL NULL included.
C13_BindOverwrites ==
    [][(h_last.set /\ h_last.idx >= 1 /\ h_last.idx <= pg_stmt.param_count
           /\ pg_stmt.param_values[h_last.idx] # NULL
           /\ h_op' = "step" /\ h_sent'.sent)
          => h_sent'.values[h_last.idx] = h_last.want]_vars

\* C14: a bind call whose position is less than 1 or greater than the
\* statement's parameter count returns the misuse code and leaves the
\* parameter vector and the parameter count as they were.
C14_BindRangeChecked ==
    [][(h_last'.set /\ (h_last'.idx < 1 \/ h_last'.idx > pg_stmt.param_count))
          => /\ h_rc' = "SQLITE_MISUSE"
             /\ pg_stmt'.param_values = pg_stmt.param_values
             /\ pg_stmt'.param_count = pg_stmt.param_count]_vars

\* C11: for SQL recognised as a skip pattern on a redirected handle, prepare
\* returns OK, the step that follows returns DONE, and nothing is sent to
\* Engine-R for the statement.
C11_SkipSucceeds ==
    is_sqlite_only(h_stmt.sql) =>
        /\ h_op = "prepare" => h_rc = "SQLITE_OK"
        /\ h_op = "step" => h_rc = "SQLITE_DONE"
        /\ h_execs = 0 /\ ~h_sent.sent

\* ------------------------------------------------------------------------
\* The accessor layer (db_interpose_column.c)
\* ------------------------------------------------------------------------
\* Engine-R sends every value as text; PQgetlength is the length of that text.
PQgetlength(cell) == Len(cell.raw)

\* hex_lut of pg_decode_bytea: the value of a hex digit, 255 for any other byte.
HexDigits == <<"0", "1", "2", "3", "4", "5", "6", "7", "8", "9",
               "a", "b", "c", "d", "e", "f">>
hex_lut(c) ==
    IF \E i \in 1..16 : HexDigits[i] = c
    THEN (CHOOSE i \in 1..16 : HexDigits[i] = c) - 1
    ELSE 255

\* pg_decode_bytea: the decoded bytes and their count.  Text that does not
\* start with \x is returned as it is; a bad hex digit gives NULL and 0.
pg_decode_bytea(cell) ==
    LET raw == cell.raw
    IN  IF Len(raw) < 2 \/ raw[1] # "\\" \/ raw[2] # "x"
        THEN [data |-> CStr(raw), len |-> PQgetlength(cell)]
        ELSE LET hex == SubSeq(raw, 3, Len(raw))
                 bin_len == Len(hex) \div 2
                 hi(i) == hex_lut(hex[2 * i - 1])
                 lo(i) == hex_lut(hex[2 * i])
             IN  IF \E i \in 1..bin_len : hi(i) = 255 \/ lo(i) = 255
                 THEN [data |-> NULL, len |-> 0]
                 ELSE [data |-> CStr([i \in 1..bin_len |-> hi(i) * 16 + lo(i)]),
                       len |-> bin_len]

\* atoi / atoll / atof on the texts the model draws: the number the leading
\* run of decimal digits spells, 0 when there is none.
RECURSIVE DigitRun(_, _)
DigitRun(s, acc) ==
    IF s = <<>> \/ hex_lut(Head(s)) > 9 THEN acc
    ELSE DigitRun(Tail(s), acc * 10 + hex_lut(Head(s)))

atoi(s) == DigitRun(s, 0)

\* The 't' / 'f' test all numeric getters make before atoi, atoll or atof.
NumericOf(raw) ==
    IF raw = <<"t">> THEN 1
    ELSE IF raw = <<"f">> THEN 0
    ELSE atoi(raw)

\* The copy into a 16 KB ring buffer: at most 16383 bytes and a terminator.
TEXT_COPY_MAX == 16383
CopyToTextBuffer(raw) ==
    CStr(IF Len(raw) >= TEXT_COPY_MAX THEN SubSeq(raw, 1, TEXT_COPY_MAX) ELSE raw)

\* Engine-R type OID -> Engine-L type code.
pg_oid_to_sqlite_type(oid) ==
    IF oid \in {20, 21, 23, 26, 16} THEN "SQLITE_INTEGER"
    ELSE IF oid \in {700, 701, 1700} THEN "SQLITE_FLOAT"
    ELSE IF oid = 17 THEN "SQLITE_BLOB"
    ELSE "SQLITE_TEXT"

\* pg_stmt->num_rows and pg_stmt->num_cols of the result the accessors read.
\* Every cell of it holds v_cell.
v_num_rows == ValueRows
v_num_cols == ValueCols

\* The checks every column getter makes before it reads the cell.
ColumnInRow(idx) ==
    /\ idx >= 0 /\ idx < v_num_cols
    /\ v_row >= 0 /\ v_row < v_num_rows

my_sqlite3_column_type(idx) ==
    IF ~ColumnInRow(idx) \/ v_cell.isnull THEN "SQLITE_NULL"
    ELSE pg_oid_to_sqlite_type(v_cell.ftype)

\* my_sqlite3_column_int / _int64 / _double
my_sqlite3_column_num(idx) ==
    IF ~ColumnInRow(idx) \/ v_cell.isnull THEN 0 ELSE NumericOf(v_cell.raw)

my_sqlite3_column_text(idx) ==
    IF ~ColumnInRow(idx) THEN CStr(<<>>)
    ELSE IF v_cell.isnull THEN NULL
    ELSE CopyToTextBuffer(v_cell.raw)

my_sqlite3_column_bytes(idx) ==
    IF ~ColumnInRow(idx) \/ v_cell.isnull THEN 0
    ELSE IF v_cell.ftype = 17 THEN pg_decode_bytea(v_cell).len
    ELSE PQgetlength(v_cell)

my_sqlite3_column_blob(idx) ==
    IF ~ColumnInRow(idx) \/ v_cell.isnull THEN NULL
    ELSE IF v_cell.ftype = 17 THEN pg_decode_bytea(v_cell).data
    ELSE IF PQgetlength(v_cell) > 0 THEN CStr(v_cell.raw)
    ELSE NULL

\* my_sqlite3_column_value: a handle for column idx of the current row.
my_sqlite3_column_value(idx) ==
    /\ v_fake' = IF idx < 0 \/ idx >= v_num_cols THEN NoFake
                 ELSE [magic |-> TRUE, col_idx |-> idx, row_idx |-> v_row]
    /\ v_fn' = "column_value" /\ v_col' = "none" /\ v_val' = "none"
    /\ v_probe' = {}
    /\ UNCHANGED <<v_cell, v_row, nonValueVars>>

\* The test every value getter makes before it reads the cell.
ValueInResult(fake) == fake.row_idx < v_num_rows /\ fake.col_idx < v_num_cols

\* PQgetisnull at the handle's row and column: 1 outside the result.
ValueIsNull(fake) == fake.row_idx < 0 \/ fake.col_idx < 0 \/ v_cell.isnull

my_sqlite3_value_type(fake) ==
    IF ~ValueInResult(fake) \/ ValueIsNull(fake) THEN "SQLITE_NULL"
    ELSE IF v_cell.ftype \in {20, 21, 23, 26, 16} THEN "SQLITE_INTEGER"
    ELSE IF v_cell.ftype \in {700, 701, 1700} THEN "SQLITE_FLOAT"
    ELSE IF v_cell.ftype = 17 THEN "SQLITE_BLOB"
    ELSE "SQLITE_TEXT"

\* my_sqlite3_value_int / _int64 / _double
my_sqlite3_value_num(fake) ==
    IF ~ValueInResult(fake) \/ ValueIsNull(fake) THEN 0 ELSE NumericOf(v_cell.raw)

my_sqlite3_value_text(fake) ==
    IF ~ValueInResult(fake) \/ ValueIsNull(fake) THEN NULL
    ELSE CopyToTextBuffer(v_cell.raw)

my_sqlite3_value_bytes(fake) ==
    IF ~ValueInResult(fake) \/ ValueIsNull(fake) THEN 0 ELSE PQgetlength(v_cell)

BLOB_COPY_MAX == 65535
my_sqlite3_value_blob(fake) ==
    IF ~ValueInResult(fake) \/ ValueIsNull(fake) \/ PQgetlength(v_cell) <= 0
    THEN NULL
    ELSE CStr(IF PQgetlength(v_cell) > BLOB_COPY_MAX
              THEN SubSeq(v_cell.raw, 1, BLOB_COPY_MAX) ELSE v_cell.raw)

Getters == {"type", "int", "int64", "double", "text", "bytes", "blob"}

ColumnGetter(fn, idx) ==
    CASE fn = "type" -> my_sqlite3_column_type(idx)
      [] fn \in {"int", "int64", "double"} -> my_sqlite3_column_num(idx)
      [] fn = "text" -> my_sqlite3_column_text(idx)
      [] fn = "bytes" -> my_sqlite3_column_bytes(idx)
      [] fn = "blob" -> my_sqlite3_column_blob(idx)

ValueGetter(fn, fake) ==
    CASE fn = "type" -> my_sqlite3_value_type(fake)
      [] fn \in {"int", "int64", "double"} -> my_sqlite3_value_num(fake)
      [] fn = "text" -> my_sqlite3_value_text(fake)
      [] fn = "bytes" -> my_sqlite3_value_bytes(fake)
      [] fn = "blob" -> my_sqlite3_value_blob(fake)

\* The cell a column getter asks libpq for (PQgetisnull, then PQgetvalue,
\* PQgetlength): the current row and column idx, once the checks passed.
ColumnProbes(idx) ==
    IF ColumnInRow(idx) THEN {[row |-> v_row, col |-> idx]} ELSE {}

\* The cell a value getter asks libpq for: the handle's row and column, once
\* its test passed.
ValueProbes(fake) ==
    IF ValueInResult(fake) THEN {[row |-> fake.row_idx, col |-> fake.col_idx]}
    ELSE {}

ColumnName(fn) ==
    CASE fn = "type" -> "column_type"
      [] fn = "int" -> "column_int"
      [] fn = "int64" -> "column_int64"
      [] fn = "double" -> "column_double"
      [] fn = "text" -> "column_text"
      [] fn = "bytes" -> "column_bytes"
      [] fn = "blob" -> "column_blob"

\* The host calls the column getter fn for column idx of the current row.
HostReadsColumn(fn, idx) ==
    /\ v_fn' = ColumnName(fn)
    /\ v_col' = ColumnGetter(fn, idx)
    /\ v_val' = "none"
    /\ v_probe' = ColumnProbes(idx)
    /\ UNCHANGED <<v_cell, v_row, v_fake, nonValueVars>>

\* The host reads the handle's column through the column getter fn and
\* through the value getter fn on the handle.
HostReads(fn) ==
    /\ v_fake.magic
    /\ v_fn' = fn
    /\ v_col' = ColumnGetter(fn, v_fake.col_idx)
    /\ v_val' = ValueGetter(fn, v_fake)
    /\ v_probe' = ColumnProbes(v_fake.col_idx) \cup ValueProbes(v_fake)
    /\ UNCHANGED <<v_cell, v_row, v_fake, nonValueVars>>

\* my_sqlite3_data_count on the statement.
my_sqlite3_data_count ==
    /\ v_fn' = "data_count"
    /\ v_col' = IF v_row < v_num_rows THEN v_num_cols ELSE 0
    /\ v_val' = "none"
    /\ v_probe' = {}
    /\ UNCHANGED <<v_cell, v_row, v_fake, nonValueVars>>

\* A step of the statement over its retained result: current_row++.
ValueStep ==
    /\ v_row <= v_num_rows
    /\ v_row' = v_row + 1
    /\ v_fn' = "step" /\ v_col' = "none" /\ v_val' = "none"
    /\ v_probe' = {}
    /\ UNCHANGED <<v_cell, v_fake, nonValueVars>>

\* The texts Engine-R may send for the cell: hex bytea, digits, a boolean.
ValueAlphabet == {"\\", "x", "1"}
ValueTexts == UNION {[1..k -> ValueAlphabet] : k \in 0..MaxValueLen} \cup {<<"t">>}
ValueOids == {17, 23, 25}

\* The statement engine at rest.
StmtIdle ==
    /\ pg_only = TRUE /\ txn_aborted = FALSE /\ pg_stmt = BlankStmt
    /\ h_rc = "none" /\ h_op = "none" /\ h_steps = 0 /\ h_step_failed = FALSE
    /\ h_execs = 0 /\ h_sent = NoSend /\ h_had_reset = FALSE
    /\ h_snapshot = NoParams /\ h_touched = {} /\ h_stmt = NoHandle
    /\ h_last = NoBind

\* A result has been obtained, by metadata-on-demand (row -1) or by the
\* first step (row 0).
ValueInit ==
    /\ StmtIdle /\ TextIdle /\ ExecIdle /\ OpenIdle /\ PoolIdle /\ MoreIdle
    /\ v_cell \in {[isnull |-> n, ftype |-> o, raw |-> r] :
                      n \in BOOLEAN, o \in ValueOids, r \in ValueTexts}
    /\ v_cell.isnull => v_cell.raw = <<>>
    /\ v_row \in {0 - 1, 0}
    /\ v_fake = NoFake
    /\ v_fn = "none" /\ v_col = "none" /\ v_val = "none"
    /\ v_probe = {}

ValueNext ==
    \/ \E idx \in (0 - 1)..v_num_cols : my_sqlite3_column_value(idx)
    \/ \E fn \in Getters : HostReads(fn)
    \/ \E fn \in Getters, idx \in (0 - 1)..v_num_cols : HostReadsColumn(fn, idx)
    \/ my_sqlite3_data_count
    \/ ValueStep

SpecValue == ValueInit /\ [][ValueNext]_vars

\* C6: in a row, each value getter on the handle of a column returns what the
\* column getter of the same name returns for that column, binary columns
\* included.
C6_ValueMatchesColumn ==
    (v_fn \in Getters /\ v_fake.magic /\ v_fake.row_idx = v_row
        /\ ColumnInRow(v_fake.col_idx))
       => v_val = v_col

\* The type-appropriate zero of a getter: NULL type, 0, a NULL or empty text,
\* no blob.
TypeZero(fn) ==
    CASE fn = "type" -> {"SQLITE_NULL"}
      [] fn \in {"int", "int64", "double", "bytes"} -> {0}
      [] fn = "text" -> {NULL, CStr(<<>>)}
      [] fn = "blob" -> {NULL}

InResult(pos) ==
    /\ pos.row >= 0 /\ pos.row < v_num_rows
    /\ pos.col >= 0 /\ pos.col < v_num_cols

\* C15: a column getter or value getter called with a position outside the
\* result (row < 0 or >= row count, column < 0 or >= column count, also
\* before the first step) returns the type-appropriate zero, and no getter
\* asks for a cell of the result at a position outside it.
C15_OutOfRangeZero ==
    /\ \A pos \in v_probe : InResult(pos)
    /\ (v_fn \in Getters /\ ~InResult([row |-> v_fake.row_idx,
                                        col |-> v_fake.col_idx]))
          => v_val \in TypeZero(v_fn)
    /\ \A fn \in Getters :
          (v_fn = ColumnName(fn) /\ v_probe = {}) => v_col \in TypeZero(fn)

\* C16: data_count returns the column count if and only if the statement is
\* positioned on a row (0 <= current_row < row count); before the first step,
\* also when metadata-on-demand has fetched the result, and after DONE it
\* returns 0.
C16_DataCountMidStream ==
    v_fn = "data_count" =>
        v_col = IF v_row >= 0 /\ v_row < v_num_rows THEN v_num_cols ELSE 0

\* ------------------------------------------------------------------------
\* The text ring (db_interpose_column.c)
\* ------------------------------------------------------------------------
\* column_text_buffers[256][16384]
TEXT_RING_SLOTS == 256

\* atomic_fetch_add(&column_text_idx, 1) & 0xFF: the slot of this call.  The
\* counter is kept as the slot it selects, which is all the code uses of it.
RingSlot(counter) == counter % TEXT_RING_SLOTS

\* my_sqlite3_column_text in a row of a result: a NULL column returns NULL
\* and takes no buffer; any other text is copied into the next buffer.
\* keep says whether the host thread keeps the returned pointer.
my_sqlite3_column_text_copy(cell, keep) ==
    LET buf == RingSlot(column_text_idx)
        copy == CopyToTextBuffer(cell.bytes).bytes
    IN  IF cell = NULL
        THEN UNCHANGED textVars
        ELSE /\ column_text_idx' = RingSlot(column_text_idx + 1)
             /\ t_ptr' = IF keep
                         THEN [held |-> TRUE, slot |-> buf, bytes |-> copy]
                         ELSE t_ptr
             /\ t_watch' = IF keep \/ (t_ptr.held /\ t_ptr.slot = buf)
                           THEN copy ELSE t_watch

\* Statement A, in a row, reads a text column; the host keeps the pointer of
\* the first read after each step, reset or finalize of A.
ColumnTextA(cell) ==
    /\ my_sqlite3_column_text_copy(cell, ~t_ptr.held)
    /\ UNCHANGED nonTextVars

\* Another statement, on this or another thread, reads a text column.
ColumnTextB(cell) ==
    /\ my_sqlite3_column_text_copy(cell, FALSE)
    /\ UNCHANGED nonTextVars

\* The host's next step, reset or finalize on A: it stops using the pointer.
ReleaseA ==
    /\ t_ptr.held
    /\ t_ptr' = NoPtr /\ t_watch' = <<>>
    /\ UNCHANGED <<column_text_idx, nonTextVars>>

TextInit ==
    /\ StmtIdle /\ ValueIdle /\ TextIdle /\ ExecIdle /\ OpenIdle /\ PoolIdle
    /\ MoreIdle

TextNext ==
    \/ \E cell \in {NULL, CStr(<<"a">>)} : ColumnTextA(cell)
    \/ \E cell \in {NULL, CStr(<<"b">>)} : ColumnTextB(cell)
    \/ ReleaseA

SpecText == TextInit /\ [][TextNext]_vars

\* C7: the bytes behind a pointer the text getter returned for a statement
\* stay as returned until that statement's next step, reset or finalize,
\* however many text getter calls are made in between.
C7_TextPointerStable == t_ptr.held => t_watch = t_ptr.bytes

\* ------------------------------------------------------------------------
\* exec and the error surface
\* (db_interpose_exec.c, db_interpose_metadata.c, db_interpose_pg.c)
\* ------------------------------------------------------------------------
\* Recording a failure on the connection record, and clearing it on success,
\* as the statement engine of the handle does.
pg_record_error(conn, msg) ==
    [conn EXCEPT !.last_error = msg, !.last_error_code = "SQLITE_ERROR"]

pg_clear_error(conn) ==
    [conn EXCEPT !.last_error = "", !.last_error_code = "SQLITE_OK"]

\* pg_pool_check_connection_health: a connection-fatal failure marks the
\* session unhealthy.
pg_pool_check_connection_health(conn, fatal) ==
    [conn EXCEPT !.healthy = @ /\ ~fatal]

\* SQL text as a sequence of pieces: "C" is the phrase collate icu_root, " " a
\* blank, any other piece is other text.
\* while ((pos = strcasestr(s, " collate icu_root"))) memmove(...)
RECURSIVE StripBlankCollate(_)
StripBlankCollate(s) ==
    IF \E i \in 1..(Len(s) - 1) : s[i] = " " /\ s[i + 1] = "C"
    THEN LET i == CHOOSE k \in 1..(Len(s) - 1) :
                     /\ s[k] = " " /\ s[k + 1] = "C"
                     /\ \A j \in 1..(k - 1) : ~(s[j] = " " /\ s[j + 1] = "C")
         IN  StripBlankCollate(SubSeq(s, 1, i - 1) \o SubSeq(s, i + 2, Len(s)))
    ELSE s

\* while ((pos = strcasestr(s, "collate icu_root"))) memmove(...)
IsNotCollate(c) == c # "C"
StripCollate(s) == SelectSeq(s, IsNotCollate)

\* The SQL my_sqlite3_exec hands to Engine-L on a handle that is not
\* redirected.
CleanedSql(s) ==
    IF \E i \in 1..Len(s) : s[i] = "C"
    THEN StripCollate(StripBlankCollate(s))
    ELSE s

\* The history of the handle after a call Engine-R answered with outcome.
HistoryAfter(outcome) ==
    IF outcome = "failed" THEN "failed"
    ELSE IF outcome = "ok" /\ e_history = "failed" THEN "failed_then_ok"
    ELSE e_history

\* What my_sqlite3_exec (db_interpose_exec.c) does to the connection record
\* once Engine-R has answered the translated command.
ExecAnswered(conn, resp, ntuples, fatal) ==
    IF ~Failed(resp)
    THEN [conn EXCEPT !.last_changes = ntuples]
    ELSE pg_pool_check_connection_health(conn, fatal)

\* my_sqlite3_exec of db_interpose_exec.c.  sqlKind is "skip" for SQL
\* should_skip_sql rejects, "untranslated" when sql_translate fails, else
\* "run"; orig is what Engine-L's exec returns on a handle that is not
\* redirected.
my_sqlite3_exec(sql, sqlKind, resp, ntuples, fatal, orig) ==
    /\ e_variant = "modular"
    /\ e_op' = "exec"
    /\ e_sql' = sql
    /\ IF pg_conn.is_pg_active
       THEN /\ e_rc' = "SQLITE_OK"
            /\ e_fwd' = NoCall
            /\ IF sqlKind = "run"
               THEN /\ pg_conn' = ExecAnswered(pg_conn, resp, ntuples, fatal)
                    /\ e_remote' = IF Failed(resp) THEN "failed" ELSE "ok"
               ELSE /\ e_remote' = "none"
                    /\ UNCHANGED pg_conn
       ELSE /\ e_rc' = orig
            /\ e_fwd' = Forwarded(CleanedSql(sql))
            /\ e_remote' = "none"
            /\ UNCHANGED pg_conn
    /\ e_history' = HistoryAfter(e_remote')
    /\ UNCHANGED <<e_variant, nonExecVars>>

\* my_sqlite3_exec of db_interpose_pg.c: pg_prepare, pg_step until it stops
\* returning ROW, pg_finalize; the last step's code is dropped.
pg_my_sqlite3_exec(sql, sqlKind, prepared, resp, msg, orig) ==
    /\ e_variant = "macos"
    /\ e_op' = "exec"
    /\ e_sql' = sql
    /\ IF pg_conn.is_pg_active /\ sqlKind # "skip"
       THEN /\ e_fwd' = NoCall
            /\ IF ~prepared
               THEN /\ e_rc' = "SQLITE_ERROR"
                    /\ e_remote' = "none"
                    /\ UNCHANGED pg_conn
               ELSE /\ e_rc' = "SQLITE_OK"
                    /\ e_remote' = IF Failed(resp) THEN "failed" ELSE "ok"
                    /\ pg_conn' = IF Failed(resp)
                                  THEN pg_record_error(pg_conn, msg)
                                  ELSE pg_clear_error(pg_conn)
       ELSE /\ e_rc' = orig
            /\ e_fwd' = Forwarded(sql)
            /\ e_remote' = "none"
            /\ UNCHANGED pg_conn
    /\ e_history' = HistoryAfter(e_remote')
    /\ UNCHANGED <<e_variant, nonExecVars>>

\* A prepared statement of the handle is stepped: a remote failure is
\* recorded on the connection record, a success clears the record.
pg_step(resp, msg) ==
    /\ pg_conn.is_pg_active
    /\ e_op' = "step"
    /\ e_rc' = IF Failed(resp) THEN "SQLITE_ERROR" ELSE "SQLITE_DONE"
    /\ e_remote' = IF Failed(resp) THEN "failed" ELSE "ok"
    /\ pg_conn' = IF Failed(resp) THEN pg_record_error(pg_conn, msg)
                                  ELSE pg_clear_error(pg_conn)
    /\ e_history' = HistoryAfter(e_remote')
    /\ e_sql' = <<>> /\ e_fwd' = NoCall
    /\ UNCHANGED <<e_variant, nonExecVars>>

\* my_sqlite3_errmsg of db_interpose_metadata.c
my_sqlite3_errmsg ==
    /\ e_variant = "modular"
    /\ e_op' = "errmsg"
    /\ LET tracked == pg_conn.is_pg_active /\ pg_conn.last_error_code # "SQLITE_OK"
                          /\ pg_conn.last_error # ""
       IN  /\ e_rc' = IF tracked THEN pg_conn.last_error ELSE "native"
           /\ e_fwd' = IF tracked THEN NoCall ELSE Forwarded(<<>>)
    /\ e_sql' = <<>>
    /\ UNCHANGED <<e_variant, pg_conn, e_remote, e_history, nonExecVars>>

\* my_sqlite3_errcode of db_interpose_metadata.c
my_sqlite3_errcode ==
    /\ e_variant = "modular"
    /\ e_op' = "errcode"
    /\ LET tracked == pg_conn.is_pg_active /\ pg_conn.last_error_code # "SQLITE_OK"
       IN  /\ e_rc' = IF tracked THEN pg_conn.last_error_code ELSE "native"
           /\ e_fwd' = IF tracked THEN NoCall ELSE Forwarded(<<>>)
    /\ e_sql' = <<>>
    /\ UNCHANGED <<e_variant, pg_conn, e_remote, e_history, nonExecVars>>

\* my_sqlite3_errmsg of db_interpose_pg.c
pg_my_sqlite3_errmsg ==
    /\ e_variant = "macos"
    /\ e_op' = "errmsg"
    /\ e_rc' = IF pg_conn.is_pg_active THEN pg_conn.last_error ELSE "native"
    /\ e_fwd' = IF pg_conn.is_pg_active THEN NoCall ELSE Forwarded(<<>>)
    /\ e_sql' = <<>>
    /\ UNCHANGED <<e_variant, pg_conn, e_remote, e_history, nonExecVars>>

\* my_sqlite3_errcode of db_interpose_pg.c
pg_my_sqlite3_errcode ==
    /\ e_variant = "macos"
    /\ e_op' = "errcode"
    /\ e_rc' = IF pg_conn.is_pg_active THEN pg_conn.last_error_code ELSE "native"
    /\ e_fwd' = IF pg_conn.is_pg_active THEN NoCall ELSE Forwarded(<<>>)
    /\ e_sql' = <<>>
    /\ UNCHANGED <<e_variant, pg_conn, e_remote, e_history, nonExecVars>>

\* my_sqlite3_changes / my_sqlite3_changes64 of db_interpose_metadata.c, called
\* by the host (in_interpose_call is 0).  Engine-L is never called.
my_sqlite3_changes ==
    /\ e_variant = "modular"
    /\ e_op' = "changes"
    /\ e_rc' = IF pg_conn.is_pg_active THEN pg_conn.last_changes ELSE 0
    /\ e_fwd' = NoCall
    /\ e_sql' = <<>>
    /\ UNCHANGED <<e_variant, pg_conn, e_remote, e_history, nonExecVars>>

\* my_sqlite3_changes of db_interpose_pg.c
pg_my_sqlite3_changes ==
    /\ e_variant = "macos"
    /\ e_op' = "changes"
    /\ e_rc' = IF pg_conn.is_pg_active THEN pg_conn.last_changes ELSE "native"
    /\ e_fwd' = IF pg_conn.is_pg_active THEN NoCall ELSE Forwarded(<<>>)
    /\ e_sql' = <<>>
    /\ UNCHANGED <<e_variant, pg_conn, e_remote, e_history, nonExecVars>>

ErrMsgs == {"e1", "e2"}
ExecSqlKinds == {"skip", "untranslated", "run"}
SqlPieces == {"s", " ", "C"}
\* An INSERT statement, the write the host sends through exec; every other
\* SQL text of the model is a statement that writes nothing.
InsertSql == <<"I">>
ExecSqls == UNION {[1..k -> SqlPieces] : k \in 1..MaxSqlLen}

ExecInit ==
    /\ StmtIdle /\ ValueIdle /\ TextIdle /\ OpenIdle /\ PoolIdle /\ MoreIdle
    /\ e_variant \in {"modular", "macos"}
    /\ pg_conn \in {[BlankConn EXCEPT !.is_pg_active = a] : a \in BOOLEAN}
    /\ e_op = "none" /\ e_rc = "none" /\ e_remote = "none"
    /\ e_history = "clean"
    /\ e_sql = <<>> /\ e_fwd = NoCall

\* The host's calls of exec.  The wording of the SQL is varied on a handle
\* that is not redirected, where it is all that matters; Engine-R's answer is
\* varied on a redirected one.
HostSqls == IF pg_conn.is_pg_active THEN {<<"s">>, InsertSql} ELSE ExecSqls
HostSqlKinds == IF pg_conn.is_pg_active THEN ExecSqlKinds ELSE {"run"}
RemoteAnswers ==
    IF pg_conn.is_pg_active THEN AnyResponse
    ELSE {[status |-> PGRES_COMMAND_OK, ntuples |-> 0, nfields |-> 0]}

ExecNext ==
    \/ \E sql \in HostSqls, k \in HostSqlKinds, resp \in RemoteAnswers,
          n \in 0..MaxChanges, fatal \in BOOLEAN,
          orig \in {"SQLITE_OK", "SQLITE_ERROR"} :
          my_sqlite3_exec(sql, k, resp, n, fatal, orig)
    \/ \E sql \in HostSqls, k \in ExecSqlKinds, prepared \in BOOLEAN,
          resp \in RemoteAnswers, msg \in ErrMsgs,
          orig \in {"SQLITE_OK", "SQLITE_ERROR"} :
          pg_my_sqlite3_exec(sql, k, prepared, resp, msg, orig)
    \/ \E resp \in AnyResponse, msg \in ErrMsgs : pg_step(resp, msg)
    \/ my_sqlite3_errmsg
    \/ my_sqlite3_errcode
    \/ pg_my_sqlite3_errmsg
    \/ pg_my_sqlite3_errcode
    \/ my_sqlite3_changes
    \/ pg_my_sqlite3_changes

SpecExec == ExecInit /\ [][ExecNext]_vars

\* C17: the value changes/changes64 return for a redirected handle is the
\* command-tag row count of the most recent write statement; executing a
\* statement that is not a write (a SELECT, say) leaves it unchanged.
C17_ChangesKeptByNonWrite ==
    [][(e_variant = "modular" /\ pg_conn.is_pg_active /\ e_op' = "exec"
        /\ e_sql' # InsertSql)
       => pg_conn'.last_changes = pg_conn.last_changes]_vars

\* C8: exec on a redirected handle returns the code prepare, step until DONE
\* and finalize would; when the remote command fails it returns an error code
\* and not OK.
C8_ExecReportsFailure ==
    (e_op = "exec" /\ pg_conn.is_pg_active /\ e_remote = "failed")
        => e_rc # "SQLITE_OK"

\* C9: on a redirected handle errmsg and errcode return the tracked error
\* when it is non-empty and Engine-L's own answer exactly when it is empty;
\* after a remote failure the tracked error is non-empty.
C9_TrackedErrorReported ==
    pg_conn.is_pg_active =>
        /\ e_op = "errmsg" =>
              e_rc = IF pg_conn.last_error # "" THEN pg_conn.last_error
                                                ELSE "native"
        /\ e_op = "errcode" =>
              e_rc = IF pg_conn.last_error # "" THEN pg_conn.last_error_code
                                                ELSE "native"
        /\ e_remote = "failed" =>
              pg_conn.last_error # "" /\ pg_conn.last_error_code # "SQLITE_OK"

\* C10: after a failed call followed by a successful call on the handle,
\* errmsg and errcode no longer report the earlier failure.
C10_SuccessClearsError ==
    (pg_conn.is_pg_active /\ e_history = "failed_then_ok"
        /\ e_op \in {"errmsg", "errcode"})
       => e_rc \notin ErrMsgs \cup {"SQLITE_ERROR"}

\* C12: on a handle that is not redirected every call is forwarded to
\* Engine-L with the SQL text the host passed, returns what Engine-L returned
\* and causes no Engine-R I/O.
C12_UnredirectedForwarded ==
    (~pg_conn.is_pg_active /\ e_op # "none")
        => /\ e_fwd.called /\ e_fwd.sql = e_sql
           /\ e_rc \in {"SQLITE_OK", "SQLITE_ERROR", "native"}
           /\ e_remote = "none"

\* ------------------------------------------------------------------------
\* Open and close of a logical handle (db_interpose_open.c,
\* db_interpose_pg_linux.c)
\* ------------------------------------------------------------------------
LibraryDb == "com.plexapp.plugins.library.db"
BlobsDb == "com.plexapp.plugins.library.blobs.db"
OtherDb == "other.db"
REDIRECT_PATTERNS == {LibraryDb, BlobsDb}

should_redirect(filename) == filename \in REDIRECT_PATTERNS

Called(op, h, rc) == [op |-> op, h |-> h, rc |-> rc]

\* sqlite3_open of db_interpose_pg_linux.c.  rc is what Engine-L's open
\* returns; connected tells whether pg_connect reached Engine-R.
sqlite3_open(h, filename, rc, connected) ==
    /\ o_variant = "linux"
    /\ ~o_db[h].open
    /\ o_db' = [o_db EXCEPT ![h] = IF rc = "SQLITE_OK" THEN OpenDb(filename)
                                                       ELSE ClosedDb]
    /\ IF rc = "SQLITE_OK" /\ should_redirect(filename) /\ connected
       THEN /\ o_conn' = [o_conn EXCEPT ![h] = TRUE]
            /\ o_session' = [o_session EXCEPT ![h] = "open"]
       ELSE UNCHANGED <<o_conn, o_session>>
    /\ o_last' = Called("open", h, rc)
    /\ UNCHANGED <<o_variant, o_lease, nonOpenVars>>

\* sqlite3_close of db_interpose_pg_linux.c (sqlite3_close_v2 is the same
\* code over orig_sqlite3_close_v2).  The connection record always carries
\* the shadow handle sqlite3_open gave pg_connect, so Engine-L's close runs.
sqlite3_close(h, orig) ==
    /\ o_variant = "linux"
    /\ o_db[h].open
    /\ IF o_conn[h]
       THEN /\ o_session' = [o_session EXCEPT ![h] = "closed"]
            /\ o_conn' = [o_conn EXCEPT ![h] = FALSE]
       ELSE UNCHANGED <<o_conn, o_session>>
    /\ o_db' = [o_db EXCEPT ![h] = ClosedDb]
    /\ o_last' = Called("close", h, orig)
    /\ UNCHANGED <<o_variant, o_lease, nonOpenVars>>

\* my_sqlite3_open of db_interpose_open.c; pg_connect makes the handle's
\* connection record and pg_register_connection registers it.
my_sqlite3_open(h, filename, rc, connected) ==
    /\ o_variant = "modular"
    /\ ~o_db[h].open
    /\ o_db' = [o_db EXCEPT ![h] = IF rc = "SQLITE_OK" THEN OpenDb(filename)
                                                       ELSE ClosedDb]
    /\ o_conn' = [o_conn EXCEPT ![h] =
                     rc = "SQLITE_OK" /\ should_redirect(filename) /\ connected]
    /\ o_last' = Called("open", h, rc)
    /\ UNCHANGED <<o_variant, o_session, o_lease, nonOpenVars>>

\* The pool hands the library handle its lease on first use: the slot becomes
\* READY and its session is opened, or reused when the slot kept one.
pool_get_connection(h) ==
    /\ o_variant = "modular"
    /\ o_conn[h] /\ o_db[h].path = LibraryDb
    /\ o_lease[h] # "READY"
    /\ o_lease' = [o_lease EXCEPT ![h] = "READY"]
    /\ o_session' = [o_session EXCEPT ![h] = "open"]
    /\ o_last' = Called("acquire", h, "SQLITE_OK")
    /\ UNCHANGED <<o_variant, o_db, o_conn, nonOpenVars>>

\* Release of the lease bound to the handle: READY -> FREE, the session is
\* kept.
pg_close_pool_for_db(lease) == IF lease = "READY" THEN "FREE" ELSE lease

\* my_sqlite3_close of db_interpose_open.c (my_sqlite3_close_v2 is the same
\* code over orig_sqlite3_close_v2): the lease of a library handle is
\* released, then the handle's connection record is unregistered and closed.
my_sqlite3_close(h, orig) ==
    /\ o_variant = "modular"
    /\ o_db[h].open
    /\ IF o_conn[h] /\ o_db[h].path = LibraryDb
       THEN o_lease' = [o_lease EXCEPT ![h] = pg_close_pool_for_db(o_lease[h])]
       ELSE UNCHANGED o_lease
    /\ o_conn' = [o_conn EXCEPT ![h] = FALSE]
    /\ o_db' = [o_db EXCEPT ![h] = ClosedDb]
    /\ o_last' = Called("close", h, orig)
    /\ UNCHANGED <<o_variant, o_session, nonOpenVars>>

OpenInit ==
    /\ StmtIdle /\ ValueIdle /\ TextIdle /\ ExecIdle /\ PoolIdle /\ MoreIdle
    /\ o_variant \in {"modular", "linux"}
    /\ o_db = [h \in Handles |-> ClosedDb]
    /\ o_conn = [h \in Handles |-> FALSE]
    /\ o_session = [h \in Handles |-> "none"]
    /\ o_lease = [h \in Handles |-> "none"]
    /\ o_last = NoCallYet

OpenPaths == {LibraryDb, BlobsDb, OtherDb}
OpenRcs == {"SQLITE_OK", "SQLITE_CANTOPEN"}

OpenNext ==
    \/ \E h \in Handles, f \in OpenPaths, rc \in OpenRcs, c \in BOOLEAN :
          sqlite3_open(h, f, rc, c)
    \/ \E h \in Handles : sqlite3_close(h, "SQLITE_OK")
    \/ \E h \in Handles, f \in OpenPaths, rc \in OpenRcs, c \in BOOLEAN :
          my_sqlite3_open(h, f, rc, c)
    \/ \E h \in Handles : pool_get_connection(h)
    \/ \E h \in Handles : my_sqlite3_close(h, "SQLITE_OK")

SpecOpen == OpenInit /\ [][OpenNext]_vars

\* C18: close on a redirected handle returns the handle's pool lease (its
\* slot goes READY -> FREE) and leaves the Engine-R session open for reuse;
\* closing a logical handle never closes the physical session.
C18_CloseKeepsSession ==
    [][\A h \in Handles :
          (o_last'.op = "close" /\ o_last'.h = h /\ o_db[h].open /\ o_conn[h])
             => /\ o_session'[h] = o_session[h]
                /\ o_session'[h] # "closed"
                /\ o_lease'[h] # "READY"]_vars

\* The leases a logical handle is associated with: its connection record
\* (found through the registry) is the handle's one way to a session.
LeasesOf(h) == IF o_conn[h] THEN 1 ELSE 0

\* C31: from a successful open of a path that matches a redirect pattern
\* until close, the handle is associated with exactly one lease, never
\* zero and never more than one.
C31_ExactlyOneLease ==
    \A h \in Handles :
        (o_db[h].open /\ should_redirect(o_db[h].path)) => LeasesOf(h) = 1

\* ------------------------------------------------------------------------
\* The connection pool (tests/src/test_crash_scenarios.c)
\* ------------------------------------------------------------------------
\* atomic_fetch_add(&generation, 1): the value the counter holds afterwards.
\* A variant that leaves the counter as it was.
atomic_fetch_add_Dropped(generation) == generation

atomic_fetch_add(generation) == generation + 1

\* atomic_compare_exchange_strong(&slot.state, &expected, SLOT_RESERVED) with
\* expected = SLOT_FREE: whether it exchanges.
\* A variant that also takes a slot another thread has reserved.
atomic_compare_exchange_strong_NotReady(slot) == slot.state # "SLOT_READY"

atomic_compare_exchange_strong(slot) == slot.state = "SLOT_FREE"

\* A thread calls pool_acquire_slot_atomic, whatever it holds already.
pool_acquire_slot_atomic(th) ==
    /\ p_pc[th] = "idle"
    /\ p_pc' = [p_pc EXCEPT ![th] = "cas"]
    /\ p_i' = [p_i EXCEPT ![th] = 0]
    /\ UNCHANGED <<test_pool, p_gen, p_held, p_old, p_claims, p_issued,
                   nonPoolVars>>

\* One turn of its loop: atomic_compare_exchange_strong of slot i from
\* SLOT_FREE to SLOT_RESERVED; on failure the next slot, or -1 after the last.
acquire_compare_exchange(th) ==
    /\ p_pc[th] = "cas"
    /\ LET i == p_i[th] IN
       IF atomic_compare_exchange_strong(test_pool[i])
       THEN /\ test_pool[i].generation < MaxGeneration
            /\ test_pool' = [test_pool EXCEPT ![i].state = "SLOT_RESERVED"]
            /\ p_claims' = [p_claims EXCEPT ![i] = @ + 1]
            /\ p_pc' = [p_pc EXCEPT ![th] = "fetch_add"]
            /\ UNCHANGED p_i
       ELSE /\ IF i + 1 < POOL_SIZE
               THEN /\ p_i' = [p_i EXCEPT ![th] = i + 1]
                    /\ UNCHANGED p_pc
               ELSE /\ p_pc' = [p_pc EXCEPT ![th] = "idle"]
                    /\ p_i' = [p_i EXCEPT ![th] = 0 - 1]
            /\ UNCHANGED <<test_pool, p_claims>>
    /\ UNCHANGED <<p_gen, p_held, p_old, p_issued, nonPoolVars>>

\* *out_generation = atomic_fetch_add(&test_pool[i].generation, 1)
acquire_fetch_add(th) ==
    /\ p_pc[th] = "fetch_add"
    /\ LET i == p_i[th] IN
       /\ p_gen' = [p_gen EXCEPT ![th] = test_pool[i].generation]
       /\ test_pool' = [test_pool EXCEPT ![i].generation = atomic_fetch_add(@)]
    /\ p_pc' = [p_pc EXCEPT ![th] = "store"]
    /\ UNCHANGED <<p_i, p_held, p_old, p_claims, p_issued, nonPoolVars>>

\* atomic_store(&test_pool[i].state, SLOT_READY); return i
acquire_store(th) ==
    /\ p_pc[th] = "store"
    /\ test_pool' = [test_pool EXCEPT ![p_i[th]].state = "SLOT_READY"]
    /\ p_held' = [p_held EXCEPT ![th] = @ \cup {Lease(p_i[th], p_gen[th])}]
    /\ p_issued' = p_issued \cup {Lease(p_i[th], p_gen[th])}
    /\ p_pc' = [p_pc EXCEPT ![th] = "idle"]
    /\ p_i' = [p_i EXCEPT ![th] = 0]
    /\ p_gen' = [p_gen EXCEPT ![th] = 0]
    /\ UNCHANGED <<p_old, p_claims, nonPoolVars>>

\* pool_release_slot(slot, expected_gen) up to its test of the generation:
\* -1 for a stale reference, else on to the store.  The thread passes the
\* a lease it holds or the one it gave back last.
pool_release_slot(th, lease) ==
    /\ p_pc[th] = "idle"
    /\ lease \in p_held[th] \cup ({p_old[th]} \ {NoLease})
    /\ IF test_pool[lease.slot].generation # lease.generation + 1
       THEN UNCHANGED <<p_pc, p_i, p_held, p_old>>
       ELSE /\ p_pc' = [p_pc EXCEPT ![th] = "release_store"]
            /\ p_i' = [p_i EXCEPT ![th] = lease.slot]
            /\ IF lease \in p_held[th]
               THEN /\ p_held' = [p_held EXCEPT ![th] = @ \ {lease}]
                    /\ p_old' = [p_old EXCEPT ![th] = lease]
               ELSE UNCHANGED <<p_held, p_old>>
    /\ UNCHANGED <<test_pool, p_gen, p_claims, p_issued, nonPoolVars>>

\* atomic_store(&test_pool[slot].state, SLOT_FREE); return 0
release_store(th) ==
    /\ p_pc[th] = "release_store"
    /\ test_pool' = [test_pool EXCEPT ![p_i[th]].state = "SLOT_FREE"]
    /\ p_pc' = [p_pc EXCEPT ![th] = "idle"]
    /\ p_i' = [p_i EXCEPT ![th] = 0]
    /\ UNCHANGED <<p_gen, p_held, p_old, p_claims, p_issued, nonPoolVars>>

PoolInit ==
    /\ StmtIdle /\ ValueIdle /\ TextIdle /\ ExecIdle /\ OpenIdle /\ PoolIdle
    /\ MoreIdle

PoolLeases == {Lease(s, g) : s \in Slots, g \in 0..MaxGeneration}

PoolNext ==
    \/ \E th \in Threads : pool_acquire_slot_atomic(th)
    \/ \E th \in Threads : acquire_compare_exchange(th)
    \/ \E th \in Threads : acquire_fetch_add(th)
    \/ \E th \in Threads : acquire_store(th)
    \/ \E th \in Threads, lease \in PoolLeases : pool_release_slot(th, lease)
    \/ \E th \in Threads : release_store(th)

SpecPool == PoolInit /\ [][PoolNext]_vars

\* The thread has claimed the slot or holds a lease of it.
Owns(th, s) ==
    \/ p_pc[th] \in {"fetch_add", "store"} /\ p_i[th] = s
    \/ \E lease \in p_held[th] : lease.slot = s

\* C19: at every moment each pool slot is owned by at most one thread: no two
\* threads claim the same FREE slot, and a slot handed to one thread is not
\* handed to another until it has been released.
C19_SingleOwner ==
    \A s \in Slots : Cardinality({th \in Threads : Owns(th, s)}) <= 1

\* The claims of a slot whose increment is still to come.
ClaimsInFlight(s) ==
    Cardinality({th \in Threads : p_pc[th] = "fetch_add" /\ p_i[th] = s})

\* C20: the generation counter of every slot never decreases and is
\* incremented once for every transition of the slot out of FREE, and no two
\* leases ever handed out carry the same (slot, generation) pair.
C20_GenerationCounts ==
    /\ [](\A s \in Slots :
            test_pool[s].generation + ClaimsInFlight(s) = p_claims[s])
    /\ [][\A s \in Slots :
            test_pool'[s].generation >= test_pool[s].generation]_vars
    /\ [][\A th \in Threads :
            (p_pc[th] = "store" /\ p_pc'[th] = "idle")
               => Lease(p_i[th], p_gen[th]) \notin p_issued]_vars

C20_Witness ==
    \E s \in Slots :
        /\ {Lease(s, 0), Lease(s, 1)} \subseteq p_issued
        /\ test_pool[s].generation = 2
        /\ p_claims[s] = 2

\* C21: a lease is honoured only if the slot is READY, the slot's generation
\* is the one of the lease and the slot's owner is the caller; a stale lease
\* is rejected, and never frees or changes a slot that now belongs to a
\* different lease.
C21_StaleLeaseRejected ==
    /\ [][\A th \in Threads :
            (p_pc[th] = "idle" /\ p_pc'[th] = "release_store")
               => /\ test_pool[p_i'[th]].state = "SLOT_READY"
                  /\ p_held'[th] # p_held[th]]_vars
    /\ [][\A th \in Threads :
            (p_pc[th] = "release_store" /\ p_pc'[th] = "idle")
               => \A other \in Threads \ {th} : ~Owns(other, p_i[th])]_vars

\* Every slot of the pool is taken.
AllOccupied == \A s \in Slots : test_pool[s].state # "SLOT_FREE"

\* C23: when every pool slot is occupied, acquire fails at once with an error
\* indication instead of blocking, and changes no slot's state, generation or
\* owner.
C23_ExhaustedFailsFast ==
    /\ [](\A th \in Threads :
            (p_pc[th] = "cas" /\ AllOccupied)
               => ENABLED acquire_compare_exchange(th))
    /\ [][\A th \in Threads :
            (p_pc[th] = "cas" /\ AllOccupied
                /\ <<p_pc'[th], p_i'[th]>> # <<p_pc[th], p_i[th]>>)
               => /\ test_pool' = test_pool
                  /\ p_held' = p_held
                  /\ p_claims' = p_claims
                  /\ IF p_i[th] + 1 < POOL_SIZE
                     THEN p_pc'[th] = "cas" /\ p_i'[th] = p_i[th] + 1
                     ELSE p_pc'[th] = "idle" /\ p_i'[th] = 0 - 1]_vars

C23_Witness ==
    /\ AllOccupied
    /\ \E th \in Threads :
          /\ p_pc[th] = "idle" /\ p_i[th] = 0 - 1
          /\ \A s \in Slots : \E lease \in p_held[th] : lease.slot = s
\* ------------------------------------------------------------------------
\* The session mutex (db_interpose_exec.c, db_interpose_column.c,
\* db_interpose_metadata.c, db_interpose_pg_linux.c)
\* ------------------------------------------------------------------------
CoreIdle ==
    /\ StmtIdle /\ ValueIdle /\ TextIdle /\ ExecIdle /\ OpenIdle /\ PoolIdle

\* The calls of each build that send a command on the session.
SessionCalls(variant) ==
    IF variant = "modular"
    THEN {"my_sqlite3_exec", "ensure_pg_result_for_metadata",
          "my_sqlite3_last_insert_rowid"}
    ELSE {"sqlite3_step", "sqlite3_exec"}

\* Whether the call takes pg_conn->mutex before it sends: the three calls of
\* the modular build do, sqlite3_step and sqlite3_exec of
\* db_interpose_pg_linux.c and the ROLLBACK of its step do not.
TakesMutex(call) ==
    call \in {"my_sqlite3_exec", "ensure_pg_result_for_metadata",
              "my_sqlite3_last_insert_rowid"}

\* A thread enters a call on the session.
SessionCall(th, call) ==
    /\ k_pc[th] = "idle"
    /\ call \in SessionCalls(k_variant)
    /\ k_call' = [k_call EXCEPT ![th] = call]
    /\ k_pc' = [k_pc EXCEPT ![th] = "entered"]
    /\ k_failed' = [k_failed EXCEPT ![th] = "none"]
    /\ UNCHANGED <<k_variant, k_mutex, nonLockVars>>

\* pthread_mutex_lock(&pg_conn->mutex) in a call that takes it.
pthread_mutex_lock(th) ==
    /\ k_pc[th] = "entered"
    /\ TakesMutex(k_call[th])
    /\ k_mutex = 0
    /\ k_mutex' = th
    /\ k_pc' = [k_pc EXCEPT ![th] = "locked"]
    /\ UNCHANGED <<k_variant, k_call, k_failed, nonLockVars>>

\* The call enters libpq with its command (PQexec, PQexecParams,
\* PQexecPrepared).
SendCommand(th) ==
    /\ \/ k_pc[th] = "locked"
       \/ k_pc[th] = "entered" /\ ~TakesMutex(k_call[th])
    /\ k_pc' = [k_pc EXCEPT ![th] = "in_libpq"]
    /\ k_failed' = IF k_call[th] = "ROLLBACK"
                   THEN [k_failed EXCEPT ![th] = "none"]
                   ELSE k_failed
    /\ UNCHANGED <<k_variant, k_mutex, k_call, nonLockVars>>

\* Engine-R answers.  sqlite3_step goes on to send ROLLBACK after a failure;
\* a call that took the mutex goes on to unlock it; the others return.
CommandAnswered(th, failed) ==
    /\ k_pc[th] = "in_libpq"
    /\ IF k_call[th] = "sqlite3_step" /\ failed
       THEN /\ k_call' = [k_call EXCEPT ![th] = "ROLLBACK"]
            /\ k_pc' = [k_pc EXCEPT ![th] = "entered"]
       ELSE IF TakesMutex(k_call[th])
       THEN /\ k_pc' = [k_pc EXCEPT ![th] = "answered"]
            /\ UNCHANGED k_call
       ELSE /\ k_call' = [k_call EXCEPT ![th] = "none"]
            /\ k_pc' = [k_pc EXCEPT ![th] = "idle"]
    /\ k_failed' = IF failed /\ k_call[th] # "ROLLBACK"
                   THEN [k_failed EXCEPT ![th] = k_call[th]]
                   ELSE k_failed
    /\ UNCHANGED <<k_variant, k_mutex, nonLockVars>>

\* pthread_mutex_unlock(&pg_conn->mutex), and the call returns.
pthread_mutex_unlock(th) ==
    /\ k_pc[th] = "answered"
    /\ k_mutex' = 0
    /\ k_call' = [k_call EXCEPT ![th] = "none"]
    /\ k_pc' = [k_pc EXCEPT ![th] = "idle"]
    /\ UNCHANGED <<k_variant, k_failed, nonLockVars>>

LockInit ==
    /\ CoreIdle /\ RetryIdle /\ TrIdle /\ CacheIdle /\ LateIdle
    /\ k_variant \in {"modular", "linux"}
    /\ k_mutex = 0
    /\ k_pc = [th \in Threads |-> "idle"]
    /\ k_call = [th \in Threads |-> "none"]
    /\ k_failed = [th \in Threads |-> "none"]

LockNext ==
    \/ \E th \in Threads, call \in SessionCalls(k_variant) : SessionCall(th, call)
    \/ \E th \in Threads : pthread_mutex_lock(th)
    \/ \E th \in Threads : SendCommand(th)
    \/ \E th \in Threads, failed \in BOOLEAN : CommandAnswered(th, failed)
    \/ \E th \in Threads : pthread_mutex_unlock(th)

SpecLock == LockInit /\ [][LockNext]_vars

\* C22: no two threads are inside an Engine-R client call on the same session
\* at the same time: every command on the session is sent by a thread that
\* holds the session's mutex.
C22_OneThreadInLibpq ==
    /\ \A th \in Threads : k_pc[th] = "in_libpq" => k_mutex = th
    /\ Cardinality({th \in Threads : k_pc[th] = "in_libpq"}) <= 1

\* C28: whenever a remote command fails during step or exec, a ROLLBACK is
\* issued on the same session before the call returns to the host.
C28_RollbackBeforeReturn ==
    \A th \in Threads :
        k_pc[th] = "idle"
            => k_failed[th] \notin {"sqlite3_step", "sqlite3_exec", "my_sqlite3_exec"}
\* ------------------------------------------------------------------------
\* Lock by trylock and retry (tests/src/test_crash_scenarios.c)
\* ------------------------------------------------------------------------
\* A variant of the loop test without the bound on i.
RetryGoesOn_Unbounded(i, acquired) == ~acquired

\* i < 10 && !acquired
RetryGoesOn(i, acquired) == i < TRYLOCK_ATTEMPTS /\ ~acquired

\* pthread_mutex_trylock(&mtx) in the loop: it takes a free mutex and fails
\* on a held one, at once either way.
pthread_mutex_trylock(th) ==
    /\ r_pc[th] = "trylock"
    /\ r_tries' = [r_tries EXCEPT ![th] = @ + 1]
    /\ IF r_mtx = 0
       THEN /\ r_mtx' = th
            /\ r_acquired' = [r_acquired EXCEPT ![th] = TRUE]
            /\ r_pc' = [r_pc EXCEPT ![th] = "unlock"]
       ELSE /\ r_pc' = [r_pc EXCEPT ![th] = "usleep"]
            /\ UNCHANGED <<r_mtx, r_acquired>>
    /\ UNCHANGED <<r_i, nonRetryVars>>

\* pthread_mutex_unlock(&mtx) after a trylock that succeeded.
trylock_unlock(th) ==
    /\ r_pc[th] = "unlock"
    /\ r_mtx' = 0
    /\ r_pc' = [r_pc EXCEPT ![th] = "usleep"]
    /\ UNCHANGED <<r_i, r_acquired, r_tries, nonRetryVars>>

\* usleep(1000); i++; and the loop test.
usleep(th) ==
    /\ r_pc[th] = "usleep"
    /\ r_i' = [r_i EXCEPT ![th] = @ + 1]
    /\ r_pc' = [r_pc EXCEPT ![th] =
                   IF RetryGoesOn(r_i[th] + 1, r_acquired[th]) THEN "trylock"
                                                               ELSE "done"]
    /\ UNCHANGED <<r_mtx, r_acquired, r_tries, nonRetryVars>>

\* The thread that holds the mutex lets it go, or takes it again.
HolderUnlocks ==
    /\ r_mtx = Holder
    /\ r_mtx' = 0
    /\ UNCHANGED <<r_pc, r_i, r_acquired, r_tries, nonRetryVars>>

HolderLocks ==
    /\ r_mtx = 0
    /\ r_mtx' = Holder
    /\ UNCHANGED <<r_pc, r_i, r_acquired, r_tries, nonRetryVars>>

RetryInit ==
    CoreIdle /\ LockIdle /\ RetryIdle /\ TrIdle /\ CacheIdle /\ LateIdle

RetryThread(th) ==
    \/ pthread_mutex_trylock(th)
    \/ trylock_unlock(th)
    \/ usleep(th)

RetryNext ==
    \/ \E th \in Threads : pthread_mutex_trylock(th)
    \/ \E th \in Threads : trylock_unlock(th)
    \/ \E th \in Threads : usleep(th)
    \/ HolderUnlocks
    \/ HolderLocks

\* Every thread in the loop gets to run; the holder owes nothing.
SpecRetry ==
    /\ RetryInit /\ [][RetryNext]_vars
    /\ \A th \in Threads : WF_vars(RetryThread(th))

\* C24: a lock taken by trylock-and-retry makes at most a fixed number of
\* attempts (10); when all fail the operation ends and reports failure
\* without holding the lock, so no such path waits forever.
C24_RetryBounded ==
    /\ [](\A th \in Threads :
            /\ r_tries[th] <= TRYLOCK_ATTEMPTS
            /\ (r_pc[th] = "done" /\ ~r_acquired[th])
                  => r_tries[th] = TRYLOCK_ATTEMPTS /\ r_mtx # th)
    /\ <>(\A th \in Threads : r_pc[th] = "done")

C24_Witness ==
    \E th \in Threads :
        /\ r_pc[th] = "done" /\ ~r_acquired[th]
        /\ r_tries[th] = TRYLOCK_ATTEMPTS
        /\ r_mtx = Holder

\* ------------------------------------------------------------------------
\* The SQL translator passes (sql_tr_quotes.c, sql_tr_keywords.c,
\* sql_tr_upsert.c)
\*
\* SQL text is a sequence of pieces.  A piece is a quote character, a name,
\* or a keyword together with the blanks the patterns of the passes spell
\* out; the text is the pieces put end to end.
\* ------------------------------------------------------------------------
Q == "'"
DQ == "\""
\* The backtick character.
BT == "[backtick]"

\* The comparisons of the passes ignore case: this model writes keywords
\* in upper case except where a lower-case spelling is listed here.
NoCase(piece) ==
    CASE piece = " glob " -> " GLOB "
      [] piece = " as " -> " AS "
      [] piece = " indexed by " -> " INDEXED BY "
      [] piece = " in ()" -> " IN ()"
      [] OTHER -> piece

MatchesAt(str, i, old) ==
    /\ i + Len(old) - 1 <= Len(str)
    /\ \A k \in 1..Len(old) : NoCase(str[i + k - 1]) = NoCase(old[k])

strcasestr(str, old) == \E i \in 1..Len(str) : MatchesAt(str, i, old)

\* Every occurrence of old, found from the left, becomes new.
RECURSIVE str_replace_nocase(_, _, _)
str_replace_nocase(str, old, new) ==
    IF Len(str) < Len(old) \/ old = <<>> THEN str
    ELSE IF MatchesAt(str, 1, old)
    THEN new \o str_replace_nocase(SubSeq(str, Len(old) + 1, Len(str)), old, new)
    ELSE <<str[1]>> \o str_replace_nocase(Tail(str), old, new)

translate_backticks(sql) ==
    [i \in 1..Len(sql) |-> IF sql[i] = BT THEN DQ ELSE sql[i]]

\* The position of the first ch at or after i, or one past the end.
NextAt(sql, i, ch) ==
    IF \E j \in i..Len(sql) : sql[j] = ch
    THEN CHOOSE j \in i..Len(sql) :
            sql[j] = ch /\ \A k \in i..(j - 1) : sql[k] # ch
    ELSE Len(sql) + 1

\* The single-quoted name starting at i, written with double quotes: what
\* is written, and where the scan goes on.
Requoted(sql, i) ==
    LET close == NextAt(sql, i + 1, Q)
    IN  [out |-> <<DQ>> \o SubSeq(sql, i + 1, close - 1)
                    \o (IF close <= Len(sql) THEN <<DQ>> ELSE <<>>),
         next |-> IF close <= Len(sql) THEN close + 1 ELSE close]

\* The pass keeps in_string but tests it only to step over a doubled quote,
\* which the first test never matches: the output does not depend on it.
RECURSIVE translate_column_quotes_from(_, _)
translate_column_quotes_from(sql, p) ==
    IF p > Len(sql) THEN <<>>
    ELSE IF sql[p] = Q /\ p > 1 /\ sql[p - 1] = "."
    THEN Requoted(sql, p).out
            \o translate_column_quotes_from(sql, Requoted(sql, p).next)
    ELSE <<sql[p]>> \o translate_column_quotes_from(sql, p + 1)

translate_column_quotes(sql) == translate_column_quotes_from(sql, 1)

\* string_char is "" while in_string is 0.
RECURSIVE translate_alias_quotes_from(_, _, _)
translate_alias_quotes_from(sql, p, string_char) ==
    IF p > Len(sql) THEN <<>>
    ELSE IF sql[p] \in {Q, DQ} /\ string_char = ""
    THEN IF sql[p] = Q /\ p > 1 /\ NoCase(sql[p - 1]) = " AS "
         THEN Requoted(sql, p).out
                \o translate_alias_quotes_from(sql, Requoted(sql, p).next, "")
         ELSE <<sql[p]>> \o translate_alias_quotes_from(sql, p + 1, sql[p])
    ELSE IF string_char # "" /\ sql[p] = string_char
    THEN IF p < Len(sql) /\ sql[p + 1] = string_char
         THEN <<sql[p], sql[p + 1]>>
                \o translate_alias_quotes_from(sql, p + 2, string_char)
         ELSE <<sql[p]>> \o translate_alias_quotes_from(sql, p + 1, "")
    ELSE <<sql[p]>> \o translate_alias_quotes_from(sql, p + 1, string_char)

translate_alias_quotes(sql) == translate_alias_quotes_from(sql, 1, "")

add_if_not_exists(sql) ==
    IF /\ Len(sql) >= 1
       /\ sql[1] \in {"CREATE TABLE ", "CREATE INDEX ", "CREATE UNIQUE INDEX "}
       /\ ~(Len(sql) >= 2 /\ sql[2] = "IF NOT EXISTS ")
    THEN <<sql[1], "IF NOT EXISTS ">> \o Tail(sql)
    ELSE sql

\* ALTER TABLE x ADD col -> ALTER TABLE x ADD COLUMN IF NOT EXISTS col
AlterAddColumn(current) ==
    IF strcasestr(current, <<"ALTER TABLE ">>) /\ strcasestr(current, <<" ADD ">>)
    THEN LET single == str_replace_nocase(current, <<" ADD ", Q>>,
                            <<" ADD ", "COLUMN ", "IF NOT EXISTS ", Q>>)
             double == str_replace_nocase(single, <<" ADD ", DQ>>,
                            <<" ADD ", "COLUMN ", "IF NOT EXISTS ", DQ>>)
         IN  IF ~strcasestr(double, <<"IF NOT EXISTS ">>)
             THEN str_replace_nocase(double, <<" ADD ">>,
                            <<" ADD ", "COLUMN ", "IF NOT EXISTS ">>)
             ELSE double
    ELSE current

RECURSIVE ReplaceEach(_, _)
ReplaceEach(current, rules) ==
    IF rules = <<>> THEN current
    ELSE ReplaceEach(str_replace_nocase(current, rules[1][1], rules[1][2]),
                     Tail(rules))

\* Transaction modes, INSERT OR IGNORE.
RewritesBeforeReplace ==
    << << <<"BEGIN", " IMMEDIATE">>, <<"BEGIN">> >>,
       << <<"BEGIN", " DEFERRED">>, <<"BEGIN">> >>,
       << <<"BEGIN", " EXCLUSIVE">>, <<"BEGIN">> >>,
       << <<"INSERT", " OR ", "IGNORE", " INTO ">>, <<"INSERT", " INTO ">> >> >>

ReplaceInto(current) ==
    IF ~strcasestr(current, <<"INSERT", " OR ">>)
    THEN str_replace_nocase(current, <<"REPLACE", " INTO ">>, <<"INSERT", " INTO ">>)
    ELSE current

\* COLLATE icu_root, the empty IN list, GROUP BY NULL, HAVING cnt.
RewritesAfterQuotes ==
    << << <<" collate icu_root">>, <<>> >>,
       << <<" IN ()">>, <<" IN (SELECT -1 WHERE FALSE)">> >>,
       << <<" IN (  )">>, <<" IN (SELECT -1 WHERE FALSE)">> >>,
       << <<" IN ( )">>, <<" IN (SELECT -1 WHERE FALSE)">> >>,
       << <<" GROUP BY NULL">>, <<>> >>,
       << <<" HAVING cnt = 0">>, <<" HAVING count(media_items.id) = 0">> >> >>

\* The query over the information schema, up to its alias, and the alias.
sqlite_master_pg ==
    <<"(SELECT ... FROM pg_indexes WHERE schemaname = current_schema()) AS ",
      "_", "sqlite_master", "_">>

\* The first pattern that changes the text is the one applied.
RECURSIVE FirstThatChanges(_, _)
FirstThatChanges(current, patterns) ==
    IF Len(patterns) = 1
    THEN str_replace_nocase(current, patterns[1], sqlite_master_pg)
    ELSE LET temp == str_replace_nocase(current, patterns[1], sqlite_master_pg)
         IN  IF temp # current THEN temp
             ELSE FirstThatChanges(current, Tail(patterns))

TranslateSqliteMaster(current) ==
    IF \/ strcasestr(current, <<"sqlite_master">>)
       \/ strcasestr(current, <<"sqlite_schema">>)
    THEN str_replace_nocase(
            FirstThatChanges(current,
                << <<DQ, "main", DQ, ".", "sqlite_master">>,
                   <<"main", ".", "sqlite_master">>,
                   <<"sqlite_master">>,
                   <<"sqlite_schema">> >>),
            <<" ORDER BY rowid">>, <<>>)
    ELSE current

\* The pieces that end the name of an index: a blank, ')' or ','.
EndsName(piece) ==
    piece \in {")", ", ", " WHERE a", " IN ()", " GROUP BY NULL", " ORDER BY rowid"}

RECURSIVE RemoveIndexedBy(_)
RemoveIndexedBy(temp) ==
    IF ~strcasestr(temp, <<" INDEXED BY ">>) THEN temp
    ELSE LET indexed_pos == CHOOSE i \in 1..Len(temp) :
                                /\ MatchesAt(temp, i, <<" INDEXED BY ">>)
                                /\ \A k \in 1..(i - 1) :
                                        ~MatchesAt(temp, k, <<" INDEXED BY ">>)
             end == IF indexed_pos < Len(temp) /\ ~EndsName(temp[indexed_pos + 1])
                    THEN indexed_pos + 2 ELSE indexed_pos + 1
         IN  RemoveIndexedBy(SubSeq(temp, 1, indexed_pos - 1)
                                \o SubSeq(temp, end, Len(temp)))

sql_translate_keywords(sql) ==
    LET altered == AlterAddColumn(sql)
        begun == ReplaceInto(ReplaceEach(altered, RewritesBeforeReplace))
        globbed == str_replace_nocase(begun, <<" GLOB ">>, <<" LIKE ">>)
        quoted == translate_backticks(
                    translate_column_quotes(translate_alias_quotes(globbed)))
        fixed == ReplaceEach(quoted, RewritesAfterQuotes)
    IN  RemoveIndexedBy(TranslateSqliteMaster(fixed))

\* The registry of conflict columns, for the tables of this model.
UpsertTables == {"tags", "preferences", "metadata_item_settings"}

conflict_targets ==
    [table_name \in UpsertTables |->
        CASE table_name = "tags" ->
                [table_name |-> "tags", conflict_columns |-> <<"id">>,
                 update_all_columns |-> 1]
          [] table_name = "preferences" ->
                [table_name |-> "preferences", conflict_columns |-> <<"name">>,
                 update_all_columns |-> 1]
          [] table_name = "metadata_item_settings" ->
                [table_name |-> "metadata_item_settings",
                 conflict_columns |-> <<"account_id", "guid">>,
                 update_all_columns |-> 0]]

find_conflict_target(table_name) ==
    IF table_name \in DOMAIN conflict_targets
    THEN conflict_targets[table_name]
    ELSE [table_name |-> "*", conflict_columns |-> <<"id">>,
          update_all_columns |-> 1]

\* The position of INTO, or 0.
IntoPos(sql) ==
    IF strcasestr(sql, <<" INTO ">>)
    THEN CHOOSE i \in 1..Len(sql) :
            /\ NoCase(sql[i]) = " INTO "
            /\ \A k \in 1..(i - 1) : NoCase(sql[k]) # " INTO "
    ELSE 0

extract_table_name(sql) ==
    IF IntoPos(sql) = 0 THEN NULL
    ELSE IF IntoPos(sql) < Len(sql) /\ sql[IntoPos(sql) + 1] \notin {"(", ";"}
    THEN CStr(sql[IntoPos(sql) + 1])
    ELSE CStr("")

\* The pieces between the '(' after the table name and its ')': <<>> when
\* there is no list (the code's NULL, which parse_columns turns into a list
\* of no columns, as it does an empty list).
extract_column_list(sql) ==
    LET open == IntoPos(sql) + 2
        close == NextAt(sql, open + 1, ")")
    IN  IF IntoPos(sql) = 0 \/ open > Len(sql) THEN <<>>
        ELSE IF sql[open] # "(" \/ close > Len(sql) THEN <<>>
        ELSE SubSeq(sql, open + 1, close - 1)

parse_columns(col_list) ==
    SelectSeq(col_list, LAMBDA piece : piece \notin {", ", DQ})

\* sprintf of a list with ", " between its members.
RECURSIVE Joined(_)
Joined(parts) ==
    IF parts = <<>> THEN <<>>
    ELSE IF Len(parts) = 1 THEN parts[1]
    ELSE parts[1] \o <<", ">> \o Joined(Tail(parts))

SetItem(target, col) ==
    IF col \in {"updated_at", "changed_at"}
    THEN <<col, " = COALESCE(EXCLUDED.", col, ", EXTRACT(EPOCH FROM NOW())::bigint)">>
    ELSE IF col = "view_count"
    THEN <<col, " = GREATEST(EXCLUDED.", col, ", plex.", target.table_name, ".", col, ", 0)">>
    ELSE <<col, " = EXCLUDED.", col>>

\* strcasestr on the registry's comma-separated text: no column name of
\* this model is a proper part of another.
InConflictColumns(target, col) ==
    \E k \in 1..Len(target.conflict_columns) : target.conflict_columns[k] = col

generate_on_conflict_clause(target, columns) ==
    IF columns = <<>> THEN NULL
    ELSE LET updated == SelectSeq(columns, LAMBDA col :
                            col # "id" /\ ~InConflictColumns(target, col))
         IN  CStr(<<" ON CONFLICT (">>
                    \o Joined([k \in 1..Len(target.conflict_columns) |->
                                    <<target.conflict_columns[k]>>])
                    \o <<") DO UPDATE SET ">>
                    \o Joined([k \in 1..Len(updated) |-> SetItem(target, updated[k])])
                    \o (IF InConflictColumns(target, "id")
                        THEN <<" RETURNING id">> ELSE <<>>))

\* The text without the blanks and semicolons at its end.
RECURSIVE TrimEnd(_)
TrimEnd(step1) ==
    IF step1 # <<>> /\ step1[Len(step1)] \in {";", " "}
    THEN TrimEnd(SubSeq(step1, 1, Len(step1) - 1))
    ELSE step1

translate_insert_or_replace(sql) ==
    IF ~strcasestr(sql, <<"INSERT", " OR ", "REPLACE">>) THEN sql
    ELSE LET table_name == extract_table_name(sql)
             target == find_conflict_target(table_name.bytes)
             step1 == str_replace_nocase(sql,
                            <<"INSERT", " OR ", "REPLACE", " INTO ">>,
                            <<"INSERT", " INTO ">>)
             on_conflict == generate_on_conflict_clause(target,
                                parse_columns(extract_column_list(sql)))
         IN  IF table_name = NULL THEN sql
             ELSE IF table_name.bytes = "metadata_item_settings" THEN step1
             ELSE IF on_conflict = NULL THEN step1
             ELSE TrimEnd(step1) \o on_conflict.bytes

\* The statements the host hands the translator.
FreePieces == {Q, BT, ".", " AS ", " GLOB ", "t"}
FreeTexts == UNION {[1..n -> FreePieces] : n \in 0..MaxPieces}

UpsertColumns == {"id", "name", "value", "updated_at"}
ColumnLists == UNION {[1..n -> UpsertColumns] : n \in 0..MaxCols}

InsertOrReplace(table, cols, semicolon) ==
    <<"INSERT", " OR ", "REPLACE", " INTO ", table>>
        \o (IF cols = <<>> THEN <<>>
            ELSE <<"(">> \o Joined([k \in 1..Len(cols) |-> <<cols[k]>>]) \o <<")">>)
        \o <<" VALUES (?)">>
        \o (IF semicolon THEN <<";">> ELSE <<>>)

Statements ==
    { <<"ALTER TABLE ", "t", " ADD ", "c">>,
      <<"ALTER TABLE ", "t", " ADD ", "COLUMN ", "c">>,
      <<"ALTER TABLE ", "t", " ADD ", Q, "c", Q>>,
      <<"CREATE TABLE ", "t">>,
      <<"CREATE TABLE ", "IF NOT EXISTS ", "t">>,
      <<"BEGIN", " IMMEDIATE">>,
      <<"REPLACE", " INTO ", "t", " VALUES (?)">>,
      <<"INSERT", " OR ", "IGNORE", " INTO ", "t", " VALUES (?)">>,
      <<"SELECT name FROM ", "sqlite_master">>,
      <<"SELECT name FROM ", "main", ".", "sqlite_master", " ORDER BY rowid">>,
      <<"SELECT a FROM ", "t", " indexed by ", "i", " WHERE a", " in ()">> }
    \cup {InsertOrReplace(table, cols, semicolon) :
            table \in UpsertTables, cols \in ColumnLists, semicolon \in BOOLEAN}

Passes ==
    {"sql_translate_keywords", "add_if_not_exists", "translate_insert_or_replace"}

ApplyPass(pass, sql) ==
    CASE pass = "sql_translate_keywords" -> sql_translate_keywords(sql)
      [] pass = "add_if_not_exists" -> add_if_not_exists(sql)
      [] pass = "translate_insert_or_replace" -> translate_insert_or_replace(sql)

\* One pass runs on the text the last one returned.
Translate(pass) ==
    /\ tr_n < MaxPasses
    /\ tr_src' = tr_sql
    /\ tr_sql' = ApplyPass(pass, tr_sql)
    /\ tr_pass' = pass
    /\ tr_n' = tr_n + 1
    /\ UNCHANGED nonTrVars

TrInit ==
    /\ CoreIdle /\ LockIdle /\ RetryIdle /\ CacheIdle /\ LateIdle
    /\ tr_sql \in FreeTexts \cup Statements
    /\ tr_src = tr_sql
    /\ tr_pass = "none"
    /\ tr_n = 0

TrNext == \E pass \in Passes : Translate(pass)

SpecTranslate == TrInit /\ [][TrNext]_vars

\* C25: translation is idempotent: a pass that is handed its own output
\* returns the same SQL text, adding no clause a second time.
C25_TranslationIdempotent ==
    [][(tr_n' = tr_n + 1 /\ tr_pass' = tr_pass) => tr_sql' = tr_sql]_vars

\* What follows " DO UPDATE SET ": the columns assigned, in order.
SetColumns(sql) ==
    LET start == NextAt(sql, 1, ") DO UPDATE SET ")
        at == SelectSeq([k \in 1..Len(sql) |-> k], LAMBDA k :
                /\ k > start /\ k < Len(sql)
                /\ sql[k + 1] \in {" = EXCLUDED.", " = COALESCE(EXCLUDED.",
                                   " = GREATEST(EXCLUDED."})
    IN  [k \in 1..Len(at) |-> sql[at[k]]]

\* C26: INSERT OR REPLACE INTO T(cols) VALUES(...) becomes INSERT INTO
\* T(cols) VALUES(...) ON CONFLICT (key_cols) DO UPDATE SET ..., with T's
\* registry entry as key_cols and one assignment for each inserted column
\* that is not a key column, in column order, and for no other column.
C26_UpsertSetList ==
    [][\A table \in UpsertTables, cols \in ColumnLists, semicolon \in BOOLEAN :
        ( /\ tr_n' = tr_n + 1
          /\ tr_pass' = "translate_insert_or_replace"
          /\ tr_sql = InsertOrReplace(table, cols, semicolon)
          /\ cols # <<>>
          /\ conflict_targets[table].update_all_columns = 1 )
        => LET key == conflict_targets[table].conflict_columns
               head == <<"INSERT", " INTO ", table, "(">>
                        \o Joined([k \in 1..Len(cols) |-> <<cols[k]>>])
                        \o <<")", " VALUES (?)", " ON CONFLICT (">>
                        \o Joined([k \in 1..Len(key) |-> <<key[k]>>])
                        \o <<") DO UPDATE SET ">>
           IN  /\ Len(tr_sql') >= Len(head)
               /\ SubSeq(tr_sql', 1, Len(head)) = head
               /\ SetColumns(tr_sql')
                    = SelectSeq(cols, LAMBDA col :
                        \A k \in 1..Len(key) : key[k] # col)]_vars

\* The string literals of a text, in order: what stands between single
\* quotes, outside double-quoted and backtick-quoted names.  A single-quoted
\* name after AS or after a dot is an identifier, not a literal.
RECURSIVE Literals(_, _)
Literals(sql, p) ==
    IF p > Len(sql) THEN <<>>
    ELSE IF sql[p] = Q
    THEN LET close == NextAt(sql, p + 1, Q)
         IN  (IF p > 1 /\ NoCase(sql[p - 1]) \in {" AS ", "."}
              THEN <<>> ELSE <<SubSeq(sql, p + 1, close - 1)>>)
                \o Literals(sql, close + 1)
    ELSE IF sql[p] \in {DQ, BT}
    THEN Literals(sql, NextAt(sql, p + 1, sql[p]) + 1)
    ELSE Literals(sql, p + 1)

\* C27: no pass changes a character inside a single-quoted string literal:
\* the literals of the translated SQL are those of the input, in order.
C27_LiteralsUntouched ==
    [][tr_n' = tr_n + 1 => Literals(tr_sql', 1) = Literals(tr_sql, 1)]_vars

\* ------------------------------------------------------------------------
\* The accessor caches of a statement (db_interpose_column.c): the decoded
\* BYTEA buffer and the copied blob buffer of column 0, each with the row
\* it was made for, under step, reset and the blob getter.
\* ------------------------------------------------------------------------
CacheRaws == {<<"\\", "x", "0", "1">>, <<"\\", "x", "1", "0">>, <<"1">>, <<>>}

CacheCells(oid) ==
    {[isnull |-> TRUE, ftype |-> oid, raw |-> <<>>]}
        \cup {[isnull |-> FALSE, ftype |-> oid, raw |-> r] : r \in CacheRaws}

\* The result sets Engine-R may return: one column of BYTEA or of text.
CacheResults ==
    UNION {[1..n -> CacheCells(oid)] : n \in 1..MaxCacheRows, oid \in {17, 25}}

\* pg_decode_bytea on the cell at (row, 0): what it returns, and the cache
\* it leaves.
DecodeCached(cell, row) ==
    LET fresh == pg_decode_bytea(cell).data
        kept == IF decoded_blob_row # row THEN NULL ELSE decoded_blobs
    IN  IF Len(cell.raw) < 2 \/ cell.raw[1] # "\\" \/ cell.raw[2] # "x"
        THEN [ret |-> fresh, row |-> decoded_blob_row, blob |-> decoded_blobs]
        ELSE IF decoded_blob_row = row /\ decoded_blobs # NULL
        THEN [ret |-> decoded_blobs, row |-> decoded_blob_row, blob |-> decoded_blobs]
        ELSE [ret |-> fresh, row |-> row,
              blob |-> IF fresh = NULL THEN kept ELSE fresh]

\* The copy my_sqlite3_column_blob keeps of a value that is not BYTEA.
CopyCached(cell, row) ==
    LET kept == IF cached_row # row THEN NULL ELSE cached_blob
        made == IF PQgetlength(cell) > 0 THEN CStr(cell.raw) ELSE kept
    IN  IF cached_row = row /\ cached_blob # NULL
        THEN [ret |-> cached_blob, row |-> cached_row, blob |-> cached_blob]
        ELSE [ret |-> made, row |-> row, blob |-> made]

\* my_sqlite3_column_blob(stmt, 0).
ColumnBlobCall ==
    /\ c_fn' = "column_blob"
    /\ IF c_result = <<>> \/ c_row < 0 \/ c_row >= Len(c_result)
       THEN /\ c_ret' = NULL
            /\ UNCHANGED <<decoded_blob_row, decoded_blobs, cached_row, cached_blob>>
       ELSE LET cell == c_result[c_row + 1]
            IN  IF cell.isnull
                THEN /\ c_ret' = NULL
                     /\ UNCHANGED <<decoded_blob_row, decoded_blobs,
                                    cached_row, cached_blob>>
                ELSE IF cell.ftype = 17
                THEN /\ c_ret' = DecodeCached(cell, c_row).ret
                     /\ decoded_blob_row' = DecodeCached(cell, c_row).row
                     /\ decoded_blobs' = DecodeCached(cell, c_row).blob
                     /\ UNCHANGED <<cached_row, cached_blob>>
                ELSE /\ c_ret' = CopyCached(cell, c_row).ret
                     /\ cached_row' = CopyCached(cell, c_row).row
                     /\ cached_blob' = CopyCached(cell, c_row).blob
                     /\ UNCHANGED <<decoded_blob_row, decoded_blobs>>
    /\ UNCHANGED <<c_result, c_row, c_runs, nonCacheVars>>

\* step: the first one executes and stands on row 0, the others move on.
CacheStepCall(result) ==
    /\ c_fn' = "step"
    /\ c_ret' = NULL
    /\ IF c_result = <<>>
       THEN /\ c_runs < MaxRuns
            /\ c_result' = result
            /\ c_row' = 0
            /\ c_runs' = c_runs + 1
       ELSE /\ c_row < Len(c_result)
            /\ c_row' = c_row + 1
            /\ UNCHANGED <<c_result, c_runs>>
    /\ UNCHANGED <<decoded_blob_row, decoded_blobs, cached_row, cached_blob,
                   nonCacheVars>>

\* reset: discards the result set and clears the current row.
CacheResetCall ==
    /\ c_result # <<>>
    /\ c_fn' = "reset"
    /\ c_ret' = NULL
    /\ c_result' = <<>>
    /\ c_row' = 0
    /\ UNCHANGED <<c_runs, decoded_blob_row, decoded_blobs, cached_row,
                   cached_blob, nonCacheVars>>

CacheInit ==
    /\ CoreIdle /\ LockIdle /\ RetryIdle /\ TrIdle /\ LateIdle
    /\ CacheIdle

CacheNext ==
    \/ ColumnBlobCall
    \/ \E result \in CacheResults : CacheStepCall(result)
    \/ CacheResetCall

SpecCache == CacheInit /\ [][CacheNext]_vars

\* The bytes of the value the statement stands on, as the blob getter is to
\* hand them out.
CurrentBlob ==
    LET cell == c_result[c_row + 1]
    IN  IF cell.isnull THEN NULL
        ELSE IF cell.ftype = 17 THEN pg_decode_bytea(cell).data
        ELSE IF PQgetlength(cell) > 0 THEN CStr(cell.raw)
        ELSE NULL

\* C30: an accessor cache entry is served only for the row and the result
\* set it was made from: after the statement moves to another row, or is
\* reset and executed again, the getter returns data of the value that is
\* current now.
C30_CacheOfCurrentValue ==
    (c_fn = "column_blob" /\ c_result # <<>> /\ c_row >= 0 /\ c_row < Len(c_result))
        => c_ret = CurrentBlob

\* ------------------------------------------------------------------------
\* The registries of db_interpose_pg_linux.c under concurrent host threads
\* ------------------------------------------------------------------------
AllIdle == CoreIdle /\ MoreIdle

Returned(op, s, rc, uaf) == [op |-> op, s |-> s, rc |-> rc, uaf |-> uaf]

\* A call can start: the thread is in no call and the library is loaded.
CanCall(th) == g_pc[th] = "idle" /\ g_state = "up"

\* What a call that read freed memory can give back.
AfterFree == {"SQLITE_ROW", "SQLITE_DONE", "SQLITE_ERROR", "SIGSEGV"}

\* register_stmt: the entry is added when the table has room.
register_stmt(s) ==
    IF Cardinality(stmt_map) < MAX_STATEMENTS THEN stmt_map \cup {s}
                                              ELSE stmt_map

\* find_pg_stmt: the record of the statement, 0 for NULL.
find_pg_stmt(s) == IF s \in stmt_map THEN s ELSE 0

\* pg_connect from sqlite3_open of a redirected path: the record is made
\* and put into connections[] when the table has room.
pg_connect(th, h, connected) ==
    /\ CanCall(th) /\ conn_mutex = 0
    /\ g_conns[h] = "none"
    /\ IF connected
       THEN /\ g_conns' = [g_conns EXCEPT ![h] = "live"]
            /\ g_session' = [g_session EXCEPT ![h] = "open"]
            /\ connections' = IF Cardinality(connections) < MAX_CONNECTIONS
                              THEN connections \cup {h} ELSE connections
       ELSE UNCHANGED <<g_conns, g_session, connections>>
    /\ g_rc' = Returned("open", h, "SQLITE_OK", {})
    /\ UNCHANGED <<g_stmts, stmt_map, conn_mutex, stmt_mutex, g_pc, g_op,
                   g_arg, g_ptr, g_uaf, g_state, nonRegVars>>

\* sqlite3_prepare_v2 of a SELECT or a write on a handle with a shadow
\* database: Engine-L prepares (orig), then the record is made and handed to
\* register_stmt.
PrepareRegistered(th, h, s, orig) ==
    /\ CanCall(th) /\ conn_mutex = 0 /\ stmt_mutex = 0
    /\ h \in connections /\ g_session[h] = "open"
    /\ g_stmts[s].state = "none"
    /\ IF orig = "SQLITE_OK"
       THEN /\ g_stmts' = [g_stmts EXCEPT ![s] =
                              [state |-> "live", conn |-> h, result |-> FALSE]]
            /\ stmt_map' = register_stmt(s)
       ELSE UNCHANGED <<g_stmts, stmt_map>>
    /\ g_rc' = Returned("prepare", s, orig, {})
    /\ UNCHANGED <<g_conns, g_session, connections, conn_mutex, stmt_mutex,
                   g_pc, g_op, g_arg, g_ptr, g_uaf, g_state, nonRegVars>>

StmtOps == {"step", "reset", "finalize"}

\* The head of sqlite3_step, sqlite3_reset and sqlite3_finalize:
\* is_pg_only_stmt reads pg_stmt->conn->shadow_db of the record it found,
\* then find_pg_stmt gives the call its pointer.  Reading a freed connection
\* record can end the process.
EnterStmtCall(th, op, s, crash) ==
    LET found == find_pg_stmt(s)
        freed == IF found # 0 /\ g_conns[g_stmts[s].conn] = "freed"
                 THEN {"conn"} ELSE {}
    IN  /\ CanCall(th) /\ stmt_mutex = 0
        /\ g_stmts[s].state = "live"
        /\ crash => freed # {}
        /\ IF crash
           THEN /\ g_state' = "crashed"
                /\ g_rc' = Returned(op, s, "SIGSEGV", freed)
                /\ UNCHANGED <<g_pc, g_op, g_arg, g_ptr, g_uaf>>
           ELSE /\ g_pc' = [g_pc EXCEPT ![th] = "found"]
                /\ g_op' = [g_op EXCEPT ![th] = op]
                /\ g_arg' = [g_arg EXCEPT ![th] = s]
                /\ g_ptr' = [g_ptr EXCEPT ![th] = found]
                /\ g_uaf' = [g_uaf EXCEPT ![th] = freed]
                /\ UNCHANGED <<g_rc, g_state>>
        /\ UNCHANGED <<g_conns, g_session, connections, g_stmts, stmt_map,
                       conn_mutex, stmt_mutex, nonRegVars>>

\* The body of the call after find_pg_stmt: it reads pg_stmt->is_pg, and
\* sqlite3_step reads pg_stmt->conn->conn as well.  sqlite3_step executes and
\* keeps the result, sqlite3_reset clears it, sqlite3_finalize goes on to
\* unregister_stmt.  rc is drawn from what the call can return.
UseStmt(th, rc) ==
    LET op == g_op[th]
        ptr == g_ptr[th]
        rec == g_stmts[ptr]
        freed == g_uaf[th]
                 \cup (IF ptr # 0 /\ rec.state = "freed" THEN {"stmt"} ELSE {})
                 \cup (IF ptr # 0 /\ op = "step" /\ rec.state = "live"
                          /\ g_conns[rec.conn] = "freed"
                       THEN {"conn"} ELSE {})
        onPg == ptr # 0 /\ freed = {} /\ g_session[rec.conn] = "open"
    IN  /\ g_pc[th] = "found" /\ g_state # "crashed"
        /\ IF freed # {}
           THEN rc \in AfterFree
           ELSE rc \in (IF op = "step" THEN {"SQLITE_ROW", "SQLITE_DONE"}
                                       ELSE {"SQLITE_OK"})
        /\ IF rc = "SIGSEGV"
           THEN /\ g_state' = "crashed"
                /\ g_rc' = Returned(op, g_arg[th], rc, freed)
                /\ UNCHANGED <<g_pc, g_op, g_arg, g_ptr, g_uaf, g_stmts>>
           ELSE IF op = "finalize"
           THEN /\ g_pc' = [g_pc EXCEPT ![th] = "unregister"]
                /\ g_uaf' = [g_uaf EXCEPT ![th] = freed]
                /\ UNCHANGED <<g_rc, g_op, g_arg, g_ptr, g_stmts, g_state>>
           ELSE /\ g_pc' = [g_pc EXCEPT ![th] = "idle"]
                /\ g_op' = [g_op EXCEPT ![th] = "none"]
                /\ g_arg' = [g_arg EXCEPT ![th] = 0]
                /\ g_ptr' = [g_ptr EXCEPT ![th] = 0]
                /\ g_uaf' = [g_uaf EXCEPT ![th] = {}]
                /\ g_rc' = Returned(op, g_arg[th], rc, freed)
                /\ g_stmts' = IF onPg
                              THEN [g_stmts EXCEPT ![ptr].result = (op = "step")]
                              ELSE g_stmts
                /\ UNCHANGED g_state
        /\ UNCHANGED <<g_conns, g_session, connections, stmt_map, conn_mutex,
                       stmt_mutex, nonRegVars>>

\* unregister_stmt, first half: stmt_mutex is taken and, for an entry whose
\* record holds a result, PQclear is called.
unregister_stmt_lock(th) ==
    LET s == g_arg[th]
    IN  /\ g_pc[th] = "unregister" /\ g_state # "crashed"
        /\ stmt_mutex = 0
        /\ stmt_mutex' = th
        /\ g_pc' = [g_pc EXCEPT ![th] =
                       IF s \in stmt_map /\ g_stmts[s].result
                       THEN "unregister_PQclear" ELSE "unregister_locked"]
        /\ UNCHANGED <<g_conns, g_session, connections, g_stmts, stmt_map,
                       conn_mutex, g_op, g_arg, g_ptr, g_uaf, g_rc, g_state,
                       nonRegVars>>

\* unregister_stmt, second half: the record is freed, its entry is
\* overwritten by the last one, the mutex is released; sqlite3_finalize
\* returns.
unregister_stmt_unlock(th) ==
    LET s == g_arg[th]
    IN  /\ g_pc[th] \in {"unregister_PQclear", "unregister_locked"}
        /\ g_state # "crashed"
        /\ IF s \in stmt_map
           THEN /\ g_stmts' = [g_stmts EXCEPT ![s].state = "freed",
                                              ![s].result = FALSE]
                /\ stmt_map' = stmt_map \ {s}
           ELSE UNCHANGED <<g_stmts, stmt_map>>
        /\ stmt_mutex' = 0
        /\ g_pc' = [g_pc EXCEPT ![th] = "idle"]
        /\ g_op' = [g_op EXCEPT ![th] = "none"]
        /\ g_arg' = [g_arg EXCEPT ![th] = 0]
        /\ g_ptr' = [g_ptr EXCEPT ![th] = 0]
        /\ g_uaf' = [g_uaf EXCEPT ![th] = {}]
        /\ g_rc' = Returned("finalize", s, "SQLITE_OK", g_uaf[th])
        /\ UNCHANGED <<g_conns, g_session, connections, conn_mutex, g_state,
                       nonRegVars>>

\* sqlite3_close, first half: find_pg_connection, then PQfinish on the
\* session of the handle.
close_PQfinish(th, h) ==
    /\ CanCall(th) /\ conn_mutex = 0
    /\ h \in connections /\ g_conns[h] = "live"
    /\ \A o \in Threads : ~(g_op[o] = "close" /\ g_arg[o] = h)
    /\ g_session' = [g_session EXCEPT ![h] = "finished"]
    /\ g_pc' = [g_pc EXCEPT ![th] = "close_PQfinish"]
    /\ g_op' = [g_op EXCEPT ![th] = "close"]
    /\ g_arg' = [g_arg EXCEPT ![th] = h]
    /\ UNCHANGED <<g_conns, connections, g_stmts, stmt_map, conn_mutex,
                   stmt_mutex, g_ptr, g_uaf, g_rc, g_state, nonRegVars>>

\* sqlite3_close, second half: under conn_mutex the record leaves
\* connections[]; then it is freed and Engine-L closes the shadow handle.
close_unregister(th) ==
    LET h == g_arg[th]
    IN  /\ g_pc[th] = "close_PQfinish" /\ g_state # "crashed"
        /\ conn_mutex = 0
        /\ connections' = connections \ {h}
        /\ g_conns' = [g_conns EXCEPT ![h] = "freed"]
        /\ g_pc' = [g_pc EXCEPT ![th] = "idle"]
        /\ g_op' = [g_op EXCEPT ![th] = "none"]
        /\ g_arg' = [g_arg EXCEPT ![th] = 0]
        /\ g_rc' = Returned("close", h, "SQLITE_OK", {})
        /\ UNCHANGED <<g_session, g_stmts, stmt_map, conn_mutex, stmt_mutex,
                       g_ptr, g_uaf, g_state, nonRegVars>>

\* shim_cleanup, first half: conn_mutex is taken and PQfinish is called on
\* every session in connections[].
shim_cleanup_lock(th) ==
    /\ CanCall(th) /\ conn_mutex = 0
    /\ conn_mutex' = th
    /\ g_session' = [h \in RegHandles |->
                        IF h \in connections /\ g_session[h] = "open"
                        THEN "finished" ELSE g_session[h]]
    /\ g_pc' = [g_pc EXCEPT ![th] =
                   IF \E h \in connections : g_session[h] = "open"
                   THEN "cleanup_PQfinish" ELSE "cleanup_locked"]
    /\ g_op' = [g_op EXCEPT ![th] = "cleanup"]
    /\ UNCHANGED <<g_conns, connections, g_stmts, stmt_map, stmt_mutex,
                   g_arg, g_ptr, g_uaf, g_rc, g_state, nonRegVars>>

\* shim_cleanup, second half: connection_count = 0, the mutex is released
\* and the library is unloaded.
shim_cleanup_unlock(th) ==
    /\ g_pc[th] \in {"cleanup_PQfinish", "cleanup_locked"}
    /\ g_state # "crashed"
    /\ connections' = {}
    /\ conn_mutex' = 0
    /\ g_pc' = [g_pc EXCEPT ![th] = "idle"]
    /\ g_op' = [g_op EXCEPT ![th] = "none"]
    /\ g_state' = "unloaded"
    /\ UNCHANGED <<g_conns, g_session, g_stmts, stmt_map, stmt_mutex,
                   g_arg, g_ptr, g_uaf, g_rc, nonRegVars>>

RegNext ==
    \/ \E th \in Threads, h \in RegHandles, c \in BOOLEAN : pg_connect(th, h, c)
    \/ \E th \in Threads, h \in RegHandles, s \in RegStmts,
          orig \in {"SQLITE_OK", "SQLITE_ERROR"} :
          PrepareRegistered(th, h, s, orig)
    \/ \E th \in Threads, op \in StmtOps, s \in RegStmts, crash \in BOOLEAN :
          EnterStmtCall(th, op, s, crash)
    \/ \E th \in Threads, rc \in AfterFree \cup {"SQLITE_OK"} : UseStmt(th, rc)
    \/ \E th \in Threads : unregister_stmt_lock(th)
    \/ \E th \in Threads : unregister_stmt_unlock(th)
    \/ \E th \in Threads, h \in RegHandles : close_PQfinish(th, h)
    \/ \E th \in Threads : close_unregister(th)
    \/ \E th \in Threads : shim_cleanup_lock(th)
    \/ \E th \in Threads : shim_cleanup_unlock(th)

SpecReg == AllIdle /\ [][RegNext]_vars

\* The thread is inside a call that talks to a session of Engine-R
\* (PQclear only releases memory of the client).
InEngineR(th) == g_pc[th] \in {"close_PQfinish", "cleanup_PQfinish"}

\* C32: no thread is inside a call into Engine-R (or Engine-L) while it
\* holds the handle-registry mutex or the statement-registry mutex, on any
\* path: statement unregistration, handle close, library shutdown.
C32_NoCallUnderRegistryMutex ==
    \A th \in Threads :
        InEngineR(th) => (conn_mutex # th /\ stmt_mutex # th)


\* C34: with two host threads on one statement, one of them in finalize, no
\* call reads or writes a statement record after it was freed, and
\* stmt_map[] never holds an entry whose record is freed.
C34_NoUseAfterFree ==
    /\ \A th \in Threads : "stmt" \notin g_uaf[th]
    /\ "stmt" \notin g_rc.uaf
    /\ \A s \in stmt_map : g_stmts[s].state = "live"

\* C35: after sqlite3_close of a redirected handle, step, reset and finalize
\* of a statement of that handle do not read the freed connection record,
\* and they return a code Engine-L defines.
C35_ClosedHandleNotRead ==
    /\ \A th \in Threads : "conn" \notin g_uaf[th]
    /\ g_rc.op \in StmtOps =>
          /\ "conn" \notin g_rc.uaf
          /\ g_rc.rc \in {"SQLITE_OK", "SQLITE_ROW", "SQLITE_DONE",
                          "SQLITE_ERROR", "SQLITE_MISUSE"}

\* C36: with stmt_map[] full, prepare on a redirected handle fails with an
\* error code and changes nothing; prepare never returns SQLITE_OK for a
\* redirected statement whose record is not in the registry.
C36_PrepareRegistersOrFails ==
    [][(g_rc' # g_rc /\ g_rc'.op = "prepare" /\ g_rc'.rc = "SQLITE_OK")
          => g_rc'.s \in stmt_map']_vars


\* ------------------------------------------------------------------------
\* The statement mutex in the accessors (db_interpose_column.c)
\* ------------------------------------------------------------------------
\* The accessors that call ensure_pg_result_for_metadata, and two of those
\* that do not.
MetadataAccessors == {"column_count", "column_name", "column_decltype",
                      "column_value"}
Accessors == MetadataAccessors \cup {"column_int", "column_text"}

\* A variant in which every accessor executes the statement when it has no
\* result.
NeedsMetadata_Always(fn, result) == ~result

\* The accessor goes through ensure_pg_result_for_metadata: it is one of
\* the metadata accessors and the statement has no result yet.
NeedsMetadata(fn, result) == fn \in MetadataAccessors /\ ~result

\* The accessor takes pg_stmt->mutex and looks at pg_stmt->result.
AccessorLock(th, fn) ==
    /\ a_pc[th] = "idle" /\ a_mutex = 0
    /\ a_mutex' = th
    /\ a_fn' = [a_fn EXCEPT ![th] = fn]
    /\ a_trips' = [a_trips EXCEPT ![th] = 0]
    /\ a_pc' = [a_pc EXCEPT ![th] =
                   IF NeedsMetadata(fn, a_result) THEN "metadata" ELSE "read"]
    /\ UNCHANGED <<a_conn_mutex, a_result, a_last, nonAccVars>>

\* ensure_pg_result_for_metadata up to PQexecParams: exec_conn->mutex is
\* taken and the session is drained.  PQexec-style calls leave nothing
\* unread, so PQisBusy is false and PQgetResult returns NULL without asking
\* the server; then the request of PQexecParams goes out.
ensure_pg_result_send(th) ==
    /\ a_pc[th] = "metadata" /\ a_conn_mutex = 0
    /\ a_conn_mutex' = th
    /\ a_trips' = [a_trips EXCEPT ![th] = @ + 1]
    /\ a_pc' = [a_pc EXCEPT ![th] = "PQexecParams"]
    /\ UNCHANGED <<a_mutex, a_result, a_fn, a_last, nonAccVars>>

\* PQexecParams returns: exec_conn->mutex is released; the result is kept
\* on PGRES_TUPLES_OK and cleared otherwise.
ensure_pg_result_answer(th, ok) ==
    /\ a_pc[th] = "PQexecParams"
    /\ a_conn_mutex' = 0
    /\ a_result' = ok
    /\ a_pc' = [a_pc EXCEPT ![th] = "read"]
    /\ UNCHANGED <<a_mutex, a_fn, a_trips, a_last, nonAccVars>>

\* The accessor reads what it returns from the result kept in the client
\* (PQfname, PQftype, PQgetvalue, current_row), releases pg_stmt->mutex and
\* returns.
AccessorUnlock(th) ==
    /\ a_pc[th] = "read"
    /\ a_mutex' = 0
    /\ a_pc' = [a_pc EXCEPT ![th] = "idle"]
    /\ a_fn' = [a_fn EXCEPT ![th] = "none"]
    /\ a_trips' = [a_trips EXCEPT ![th] = 0]
    /\ a_last' = [fn |-> a_fn[th], trips |-> a_trips[th]]
    /\ UNCHANGED <<a_conn_mutex, a_result, nonAccVars>>

\* Another thread of the host uses the session of the statement for a
\* command of its own, under exec_conn->mutex.
SessionUse(th, done) ==
    /\ a_pc[th] = (IF done THEN "session" ELSE "idle")
    /\ a_conn_mutex = (IF done THEN th ELSE 0)
    /\ a_conn_mutex' = (IF done THEN 0 ELSE th)
    /\ a_pc' = [a_pc EXCEPT ![th] = IF done THEN "idle" ELSE "session"]
    /\ UNCHANGED <<a_mutex, a_result, a_fn, a_trips, a_last, nonAccVars>>

AccNext ==
    \/ \E th \in Threads, fn \in Accessors : AccessorLock(th, fn)
    \/ \E th \in Threads : ensure_pg_result_send(th)
    \/ \E th \in Threads, ok \in BOOLEAN : ensure_pg_result_answer(th, ok)
    \/ \E th \in Threads : AccessorUnlock(th)
    \/ \E th \in Threads, done \in BOOLEAN : SessionUse(th, done)

SpecAcc == AllIdle /\ [][AccNext]_vars

RECURSIVE Xor(_, _)
Xor(a, b) ==
    IF a = 0 THEN b
    ELSE IF b = 0 THEN a
    ELSE (((a % 2) + (b % 2)) % 2) + 2 * Xor(a \div 2, b \div 2)

\* The hash is kept in its low KEY_BITS bits, which xor and multiplication
\* modulo 2^64 determine exactly from the low bits of their operands.
KeyWidth == 2 ^ KEY_BITS

\* fnv1a_hash: for every byte, hash ^= byte; hash *= prime.
RECURSIVE fnv1a_from(_, _, _)
fnv1a_from(hash, bytes, i) ==
    IF i > Len(bytes) THEN hash
    ELSE fnv1a_from((Xor(hash, bytes[i]) * FNV_PRIME) % KeyWidth, bytes, i + 1)

fnv1a_hash(bytes) == fnv1a_from(FNV_OFFSET, bytes, 1)

\* compute_cache_key: the hash of the SQL, then for every parameter that is
\* not NULL, hash ^= fnv1a_hash(param); hash *= prime.
RECURSIVE cache_key_from(_, _, _)
cache_key_from(hash, params, i) ==
    IF i > Len(params) THEN hash
    ELSE IF params[i] = NULL THEN cache_key_from(hash, params, i + 1)
    ELSE cache_key_from((Xor(hash, fnv1a_hash(params[i].bytes)) * FNV_PRIME)
                           % KeyWidth, params, i + 1)

compute_cache_key(sql, params) == cache_key_from(fnv1a_hash(sql), params, 1)

\* Requests: two statements with MaxKeyParams placeholders, as bytes, and
\* the parameter vectors over NULL and two one-character texts.
KeySqls == {<<83, 49>>, <<83, 50>>}
KeyParams == {NULL, CStr(<<49>>), CStr(<<50>>)}
KeyVectors == [1..MaxKeyParams -> KeyParams]
Request(sql, params) == [sql |-> sql, params |-> params]

\* A lookup computes the key of its request; the model keeps the last
\* two lookups.
CacheLookup(req) ==
    /\ q_a' = q_b /\ q_key_a' = q_key_b
    /\ q_b' = req
    /\ q_key_b' = compute_cache_key(req.sql, req.params)
    /\ UNCHANGED <<q_entry, q_now, nonQcVars>>

\* is_cache_expired.
is_cache_expired(created_ms, now_ms) == (now_ms - created_ms) > QUERY_CACHE_TTL_MS

\* A result is published: the statement that made it holds the first
\* reference.
cache_publish ==
    /\ q_entry.state # "published"
    /\ q_entry' = [state |-> "published", ref_count |-> 1, created_ms |-> q_now]
    /\ UNCHANGED <<q_now, q_a, q_b, q_key_a, q_key_b, nonQcVars>>

\* A lookup hits the entry within its TTL: one more statement references it.
cache_hit ==
    /\ q_entry.state = "published"
    /\ ~is_cache_expired(q_entry.created_ms, q_now)
    /\ q_entry.ref_count < MaxRefs
    /\ q_entry' = [q_entry EXCEPT !.ref_count = @ + 1]
    /\ UNCHANGED <<q_now, q_a, q_b, q_key_a, q_key_b, nonQcVars>>

\* mock_release: ref_count--, and the entry is freed at ref_count <= 0.
mock_release ==
    /\ q_entry.state = "published"
    /\ q_entry' = [q_entry EXCEPT
                      !.ref_count = @ - 1,
                      !.state = IF q_entry.ref_count - 1 <= 0 THEN "freed"
                                                              ELSE @]
    /\ UNCHANGED <<q_now, q_a, q_b, q_key_a, q_key_b, nonQcVars>>

\* Time passes.
ClockTick ==
    /\ q_now < MaxTicks * TickMs
    /\ q_now' = q_now + TickMs
    /\ UNCHANGED <<q_entry, q_a, q_b, q_key_a, q_key_b, nonQcVars>>

QcNext ==
    \/ \E sql \in KeySqls, params \in KeyVectors :
          CacheLookup(Request(sql, params))
    \/ cache_publish
    \/ cache_hit
    \/ mock_release
    \/ ClockTick

SpecQc == AllIdle /\ [][QcNext]_vars

\* C37: a cached result is not modified after publication, is not freed
\* while its reference count is at least 1, and is freed only once the count
\* is 0 and its TTL has elapsed.
C37_FreedOnlyUnreferencedAndExpired ==
    [][/\ (q_entry.state = "published" /\ q_entry'.state = "published")
             => q_entry'.created_ms = q_entry.created_ms
       /\ (q_entry.state = "published" /\ q_entry'.state = "freed")
             => /\ q_entry'.ref_count = 0
                /\ is_cache_expired(q_entry.created_ms, q_now)]_vars

\* C40: two lookups whose SQL or parameter vectors differ in any position,
\* the positions of the NULLs included, never have the same key.
C40_KeyDistinguishesRequests ==
    (q_a # NoRequest /\ q_a # q_b) => q_key_a # q_key_b


\* ------------------------------------------------------------------------
\* The prepared-statement cache of a lease (db_interpose_exec.c)
\* ------------------------------------------------------------------------
\* A variant of the invalidation that keeps the entries.
stmt_cache_clear_Kept(cache) == cache

\* The cache is invalidated when the slot leaves READY.
stmt_cache_clear(cache) == [h \in SqlHashes |-> 0]

\* The recency list that goes with the cache.
LruOf(cache, lru) == SelectSeq(lru, LAMBDA h : cache[h] # 0)

\* pg_stmt_cache_lookup: the hash is cached.
pg_stmt_cache_lookup(hash) == s_cache[hash] # 0

\* pg_stmt_cache_add: the least recently used entry goes when the cache is
\* full.
pg_stmt_cache_add(hash) ==
    LET full == Len(s_lru) >= STMT_CACHE_SIZE
        kept == IF full THEN Tail(s_lru) ELSE s_lru
    IN  [cache |-> [h \in SqlHashes |->
                       IF h = hash THEN s_session
                       ELSE IF full /\ h = Head(s_lru) THEN 0
                       ELSE s_cache[h]],
         lru |-> Append(kept, hash)]

\* The slot leaves READY for state to.
LeaveReady(to) ==
    /\ s_slot' = to
    /\ s_cache' = stmt_cache_clear(s_cache)
    /\ s_lru' = LruOf(s_cache', s_lru)

\* The statement-cache part of my_sqlite3_exec.  On a hit the cached name is
\* executed; on a miss the statement is prepared under the name made from
\* the hash, which the session refuses when it knows the name already, and
\* then added and executed, or the SQL is sent unprepared.  failed and fatal
\* say how the command ended and what pg_pool_check_connection_health made
\* of it.
ExecCached(hash, failed, fatal) ==
    LET hit == pg_stmt_cache_lookup(hash)
        known == hash \in s_prepared
        prepared_ok == ~hit /\ ~known
        added == pg_stmt_cache_add(hash)
        broken == hit /\ ~known
    IN  /\ s_slot = "READY"
        /\ broken => failed
        /\ s_last' = [how |-> IF hit \/ prepared_ok THEN "PQexecPrepared"
                                                    ELSE "PQexec",
                      hash |-> hash,
                      made_on |-> IF hit THEN s_cache[hash]
                                  ELSE IF prepared_ok THEN s_session ELSE 0,
                      on |-> s_session]
        /\ s_prepared' = IF prepared_ok THEN s_prepared \cup {hash}
                                        ELSE s_prepared
        /\ IF failed /\ fatal
           THEN /\ s_slot' = "ERROR"
                /\ s_cache' = stmt_cache_clear(s_cache)
                /\ s_lru' = LruOf(s_cache', s_lru)
           ELSE /\ s_cache' = IF prepared_ok THEN added.cache
                              ELSE s_cache
                /\ s_lru' = IF prepared_ok THEN added.lru
                            ELSE IF hit
                            THEN Append(SelectSeq(s_lru, LAMBDA h : h # hash),
                                        hash)
                            ELSE s_lru
                /\ UNCHANGED s_slot
        /\ UNCHANGED <<s_session, nonScVars>>

\* The handle is closed: the lease is released, the slot keeps its session.
ReleaseLease ==
    /\ s_slot = "READY"
    /\ LeaveReady("FREE")
    /\ UNCHANGED <<s_session, s_prepared, s_last, nonScVars>>

\* The next acquisition: a FREE slot is READY again with the session it
\* kept; an ERROR slot reconnects, and a new session knows no statement.
AcquireLease(reconnected) ==
    /\ s_slot \in {"FREE", "ERROR"}
    /\ IF s_slot = "FREE"
       THEN /\ s_slot' = "READY"
            /\ UNCHANGED <<s_session, s_prepared>>
       ELSE IF reconnected /\ s_session < MaxSessions
       THEN /\ s_slot' = "READY"
            /\ s_session' = s_session + 1
            /\ s_prepared' = {}
       ELSE UNCHANGED <<s_slot, s_session, s_prepared>>
    /\ UNCHANGED <<s_cache, s_lru, s_last, nonScVars>>

ScNext ==
    \/ \E hash \in SqlHashes, failed, fatal \in BOOLEAN :
          ExecCached(hash, failed, fatal)
    \/ ReleaseLease
    \/ \E reconnected \in BOOLEAN : AcquireLease(reconnected)

SpecSc == AllIdle /\ [][ScNext]_vars

\* C38: the cache of a lease is empty whenever its slot is not READY; a
\* cached name was prepared on the current session; an exec by name runs a
\* statement prepared on the session it runs on.
C38_CacheOfCurrentSession ==
    /\ s_slot # "READY" => \A h \in SqlHashes : s_cache[h] = 0
    /\ \A h \in SqlHashes : s_cache[h] \in {0, s_session}
    /\ s_last.how = "PQexecPrepared" => s_last.made_on = s_last.on

\* After a reconnect a statement is prepared again and executed by name on
\* the new session.
C38_Witness ==
    /\ s_session > 1
    /\ s_last.how = "PQexecPrepared" /\ s_last.on = s_session
    /\ s_cache[s_last.hash] = s_session


\* ------------------------------------------------------------------------
\* The ring of value handles (db_interpose_column.c, test_crash_scenarios.c)
\* ------------------------------------------------------------------------
\* The counter is an unsigned int: it wraps at 2^COUNTER_BITS.
CounterWrap == 2 ^ COUNTER_BITS

\* The counter read as a signed int of the same width.
AsSigned(counter) ==
    IF counter >= CounterWrap \div 2 THEN counter - CounterWrap ELSE counter

\* The remainder of C: it has the sign of the dividend.
CRem(a, b) == IF a >= 0 THEN a % b ELSE 0 - ((0 - a) % b)

\* buggy_get_fake_slot_signed: (*counter)++ % MAX_FAKE_VALUES on a signed
\* counter.
buggy_get_fake_slot_signed(counter) == CRem(AsSigned(counter), MAX_FAKE_VALUES)

\* fixed_get_fake_slot_unsigned, and line 767 of db_interpose_column.c:
\* (counter++) & 0xFF, the low eight bits of the counter.
fixed_get_fake_slot_unsigned(counter) == counter % (FAKE_MASK + 1)

\* The end of my_sqlite3_column_value, under fake_value_mutex: the slot is
\* taken from the counter, the counter goes up by one, and the fields of the
\* slot are overwritten.  A slot outside the pool is not written.
AllocFakeValue ==
    LET slot == fixed_get_fake_slot_unsigned(fake_value_next)
    IN  /\ f_allocs < MaxAllocs
        /\ f_slot' = slot
        /\ fake_value_next' = (fake_value_next + 1) % CounterWrap
        /\ fake_value_pool' = IF slot \in FakeSlots
                              THEN [fake_value_pool EXCEPT ![slot] = f_allocs]
                              ELSE fake_value_pool
        /\ f_allocs' = f_allocs + 1
        /\ UNCHANGED nonFakeVars

FakeNext == AllocFakeValue

SpecFake == AllIdle /\ [][FakeNext]_vars

\* The allocations whose handle must still be intact: the last
\* MAX_FAKE_VALUES ones.
LiveAllocs ==
    {k \in 0..(f_allocs - 1) : f_allocs - k <= MAX_FAKE_VALUES}

\* C39: allocation number k uses ring slot k mod 256 for every value of the
\* counter, across its wraparound too: the slot is within 0..255, and a
\* handle is overwritten by the 256th later allocation and not earlier.
C39_RingSlotOfAllocation ==
    /\ f_slot \in FakeSlots
    /\ f_allocs > 0 => f_slot = (f_allocs - 1) % MAX_FAKE_VALUES
    /\ \A k \in LiveAllocs : fake_value_pool[k % MAX_FAKE_VALUES] = k
    /\ \A slot \in FakeSlots :
          fake_value_pool[slot] >= 0 => fake_value_pool[slot] \in LiveAllocs

\* The counter has wrapped around and the ring went on where it was.
C39_Witness ==
    /\ f_allocs > CounterWrap
    /\ fake_value_next < f_allocs
    /\ f_slot = (f_allocs - 1) % MAX_FAKE_VALUES

====
